---------------------------- MODULE Spec2Model ----------------------------
(***************************************************************************)
(* A model of the DataTransformer conversion engine                        *)
(* (src/unnamed/part_006, the documented engine at lines 740-1588).        *)
(*                                                                         *)
(* JavaScript strings are sequences of one-character strings, so that      *)
(* trimming, splitting, case folding and the hand-written parsers work on  *)
(* characters as the code does.  A JavaScript value is a record            *)
(*     [t |-> "str", v |-> characters]        a string                     *)
(*     [t |-> "num", v |-> integer]           a number                     *)
(*     [t |-> "lit", v |-> characters]        true, false or null          *)
(*     [t |-> "obj", v |-> <<<<key, value>>, ...>>]  own properties, in    *)
(*                                            property order               *)
(*     [t |-> "arr", v |-> <<value, ...>>]    an array                     *)
(***************************************************************************)
EXTENDS Integers, Sequences, FiniteSets, TLC

VARIABLES
    raw,        \* settingsStr: the directive text handed to parseSettings / convert
    inputStr,   \* inputStr: the text handed to detectFormat / convert
    pc,         \* position of the convert call under study
    opts,       \* what parseSettings returned or threw
    inFmt,      \* the resolved input format
    data,       \* convert's `data`: the tree between decode and encode
    result,     \* what the call resolved or rejected with
    steps,      \* the passes the call has run, in order
    val,        \* a tree handed to jsonToEmmet
    text,       \* the Emmet text produced from val
    dec,        \* what emmetToJSON made of text
    jsyaml,     \* global.jsyaml: TRUE once the provider script has run
    scripts,    \* the <script> elements appended to document.head
    calls       \* the jsonToYAML / yamlToJSON calls in flight

vars == <<raw, inputStr, pc, opts, inFmt, data, result, steps, val, text, dec,
          jsyaml, scripts, calls>>

(***************************************************************************)
(* Characters and strings                                                  *)
(***************************************************************************)
UpperChars == <<"A","B","C","D","E","F","G","H","I","J","K","L","M",
                "N","O","P","Q","R","S","T","U","V","W","X","Y","Z">>
LowerChars == <<"a","b","c","d","e","f","g","h","i","j","k","l","m",
                "n","o","p","q","r","s","t","u","v","w","x","y","z">>
DigitChars == <<"0","1","2","3","4","5","6","7","8","9">>

Range(s) == {s[j] : j \in DOMAIN s}
IndexOf(seq, c) == CHOOSE j \in DOMAIN seq : seq[j] = c

IsUpper(c) == c \in Range(UpperChars)
IsLower(c) == c \in Range(LowerChars)
IsDigit(c) == c \in Range(DigitChars)
\* String.prototype.trim's white space, as far as the model's alphabet goes
IsSpace(c) == c \in {" ", "\t", "\n", "\r"}

toLowerChar(c) == IF IsUpper(c) THEN LowerChars[IndexOf(UpperChars, c)] ELSE c
toUpperChar(c) == IF IsLower(c) THEN UpperChars[IndexOf(LowerChars, c)] ELSE c
toLowerCase(s) == [j \in DOMAIN s |-> toLowerChar(s[j])]
toUpperCase(s) == [j \in DOMAIN s |-> toUpperChar(s[j])]

RECURSIVE TrimStart(_)
TrimStart(s) == IF s # << >> /\ IsSpace(Head(s)) THEN TrimStart(Tail(s)) ELSE s
RECURSIVE TrimEnd(_)
TrimEnd(s) ==
    IF s # << >> /\ IsSpace(s[Len(s)]) THEN TrimEnd(SubSeq(s, 1, Len(s) - 1)) ELSE s
trim(s) == TrimEnd(TrimStart(s))

startsWith(s, p) == Len(s) >= Len(p) /\ SubSeq(s, 1, Len(p)) = p
endsWith(s, p) == Len(s) >= Len(p) /\ SubSeq(s, Len(s) - Len(p) + 1, Len(s)) = p
includes(s, c) == c \in Range(s)

\* s.split(c) for a one-character separator: always at least one piece
RECURSIVE SplitChar(_, _, _)
SplitChar(s, c, cur) ==
    IF s = << >> THEN <<cur>>
    ELSE IF Head(s) = c THEN <<cur>> \o SplitChar(Tail(s), c, << >>)
    ELSE SplitChar(Tail(s), c, Append(cur, Head(s)))
split(s, c) == SplitChar(s, c, << >>)

\* s.split(/\r?\n/): a line ends at "\n", and a "\r" right before it goes too
RECURSIVE SplitLines(_, _)
SplitLines(s, cur) ==
    IF s = << >> THEN <<cur>>
    ELSE IF Head(s) = "\n" THEN <<cur>> \o SplitLines(Tail(s), << >>)
    ELSE IF Head(s) = "\r" /\ Len(s) >= 2 /\ s[2] = "\n"
         THEN <<cur>> \o SplitLines(Tail(Tail(s)), << >>)
    ELSE SplitLines(Tail(s), Append(cur, Head(s)))
splitLines(s) == SplitLines(s, << >>)

\* pieces.join(sep)
RECURSIVE join(_, _)
join(pieces, sep) ==
    IF pieces = << >> THEN << >>
    ELSE IF Len(pieces) = 1 THEN pieces[1]
    ELSE pieces[1] \o sep \o join(Tail(pieces), sep)


(***************************************************************************)
(* Numbers and their decimal text                                          *)
(***************************************************************************)
DigitVal(c) == IndexOf(DigitChars, c) - 1

RECURSIVE DigitsVal(_, _)
DigitsVal(s, acc) ==
    IF s = << >> THEN acc ELSE DigitsVal(Tail(s), 10 * acc + DigitVal(Head(s)))

AllDigits(s) == s # << >> /\ \A j \in DOMAIN s : IsDigit(s[j])

RECURSIVE NatStr(_)
NatStr(n) == IF n < 10 THEN <<DigitChars[n + 1]>>
             ELSE Append(NatStr(n \div 10), DigitChars[(n % 10) + 1])
\* String(n) for an integer n
NumStr(n) == IF n < 0 THEN <<"-">> \o NatStr(0 - n) ELSE NatStr(n)

\* The decimal texts d with String(Number(d)) === d, among texts made of digits
\* and "-": "0", or an optional "-" before digits that start with 1..9.
IsCanonicalInt(s) ==
    \/ s = <<"0">>
    \/ AllDigits(s) /\ s[1] # "0"
    \/ Len(s) >= 2 /\ s[1] = "-" /\ AllDigits(Tail(s)) /\ s[2] # "0"
CanonicalIntVal(s) ==
    IF s[1] = "-" THEN 0 - DigitsVal(Tail(s), 0) ELSE DigitsVal(s, 0)

(***************************************************************************)
(* JavaScript values                                                       *)
(***************************************************************************)
Str(s) == [t |-> "str", v |-> s]
Num(n) == [t |-> "num", v |-> n]
Lit(s) == [t |-> "lit", v |-> s]
Obj(entries) == [t |-> "obj", v |-> entries]
Arr(elems) == [t |-> "arr", v |-> elems]
EmptyObj == Obj(<< >>)

isObject(x) == x.t = "obj"
isArray(x) == x.t = "arr"
isString(x) == x.t = "str"

Keys(o) == [j \in DOMAIN o.v |-> o.v[j][1]]
Values(o) == [j \in DOMAIN o.v |-> o.v[j][2]]
HasKey(o, k) == \E j \in DOMAIN o.v : o.v[j][1] = k
Get(o, k) == o.v[CHOOSE j \in DOMAIN o.v : o.v[j][1] = k][2]

\* An integer-like property name ("0", "7", "10"): such names come first, in
\* ascending numeric order, when an object's own properties are listed.
IsIndexKey(k) == AllDigits(k) /\ (k = <<"0">> \/ k[1] # "0")

\* where a new property k goes among the entries e
InsertPos(e, k) ==
    IF IsIndexKey(k)
    THEN Cardinality({j \in DOMAIN e :
             IsIndexKey(e[j][1]) /\ DigitsVal(e[j][1], 0) < DigitsVal(k, 0)}) + 1
    ELSE Len(e) + 1

\* o[k] = x on an ordinary object: an existing property keeps its place
Put(o, k, x) ==
    IF HasKey(o, k)
    THEN Obj([j \in DOMAIN o.v |-> IF o.v[j][1] = k THEN <<k, x>> ELSE o.v[j]])
    ELSE LET p == InsertPos(o.v, k)
         IN  Obj(SubSeq(o.v, 1, p - 1) \o << <<k, x>> >> \o SubSeq(o.v, p, Len(o.v)))

\* Object.fromEntries(pairs), and an object literal written entry by entry
RECURSIVE FromEntries(_, _)
FromEntries(pairs, acc) ==
    IF pairs = << >> THEN acc
    ELSE FromEntries(Tail(pairs), Put(acc, pairs[1][1], pairs[1][2]))
fromEntries(pairs) == FromEntries(pairs, EmptyObj)


(***************************************************************************)
(* SETTINGS PARSER  (parseSettings)                                        *)
(***************************************************************************)
S_json == <<"j","s","o","n">>
S_yaml == <<"y","a","m","l">>
S_xml == <<"x","m","l">>
S_csv == <<"c","s","v">>
S_emmet == <<"e","m","m","e","t">>
S_auto == <<"a","u","t","o">>
S_unknown == <<"u","n","k","n","o","w","n">>
S_true == <<"t","r","u","e">>
S_false == <<"f","a","l","s","e">>
S_null == <<"n","u","l","l">>
S_yes == <<"y","e","s">>
S_no == <<"n","o">>
S_upper == <<"u","p","p","e","r">>
S_camel == <<"c","a","m","e","l">>
S_snake == <<"s","n","a","k","e">>
S_none == <<"n","o","n","e">>
S_inputformat == <<"i","n","p","u","t","f","o","r","m","a","t">>
S_outputformat == <<"o","u","t","p","u","t","f","o","r","m","a","t">>
S_savetohistory == <<"s","a","v","e","t","o","h","i","s","t","o","r","y">>
S_align == <<"a","l","i","g","n">>
S_case == <<"c","a","s","e">>
S_replaceDot == <<"r","e","p","l","a","c","e",".">>
S_tag == <<"t","a","g">>
S_val == <<"v","a","l">>

VALID_INPUTS == {S_json, S_yaml, S_xml, S_csv, S_emmet, S_auto}
VALID_OUTPUTS == {S_json, S_yaml, S_xml, S_csv, S_emmet}
VALID_BOOL == {S_true, S_false, <<"1">>, <<"0">>, S_yes, S_no}
VALID_CASE == {S_upper, S_camel, S_snake, S_none}

\* the record parseSettings starts from
DefaultSettings ==
    [st |-> "ok",
     inputformat |-> S_auto,
     outputformat |-> S_json,
     savetohistory |-> FALSE,
     align |-> TRUE,
     case |-> S_none,
     replace |-> [tag |-> EmptyObj, val |-> EmptyObj]]

\* throw Error(`<message>: <detail>`)
Thrown(message, detail) == [st |-> "throw", msg |-> message, detail |-> detail]

\* /^(true|1|yes)$/i.test(v)
TruthyText(v) == toLowerCase(v) \in {S_true, <<"1">>, S_yes}

\* key.match(/^replace\.(tag|val)\.(.+)$/): the type and the find-key, or no match
ReplaceMatch(key) ==
    IF startsWith(key, S_replaceDot)
       /\ Len(key) >= Len(S_replaceDot) + 5
       /\ SubSeq(key, 9, 11) \in {S_tag, S_val}
       /\ key[12] = "."
       /\ \A j \in 13..Len(key) : key[j] \notin {"\n", "\r"}
    THEN [m |-> TRUE, type |-> SubSeq(key, 9, 11), find |-> SubSeq(key, 13, Len(key))]
    ELSE [m |-> FALSE]

\* the body of the forEach callback for one line, on the settings built so far
ParseLine(out, line) ==
    LET trimmed == trim(line)
        parts == split(trimmed, "=")
        k == parts[1]
        v == trim(join(Tail(parts), <<"=">>))
        key == IF startsWith(k, S_replaceDot) THEN k ELSE toLowerCase(k)
        lv == toLowerCase(v)
        m == ReplaceMatch(key)
    IN  IF trimmed = << >> \/ startsWith(trimmed, <<"#">>) THEN out
        ELSE IF k = << >> THEN out
        ELSE IF key = S_inputformat THEN
            IF lv \notin VALID_INPUTS
            THEN Thrown("Invalid setting", S_inputformat \o <<"=">> \o v)
            ELSE [out EXCEPT !.inputformat = lv]
        ELSE IF key = S_outputformat THEN
            IF lv \notin VALID_OUTPUTS
            THEN Thrown("Invalid setting", S_outputformat \o <<"=">> \o v)
            ELSE [out EXCEPT !.outputformat = lv]
        ELSE IF key = S_savetohistory THEN
            IF lv \notin VALID_BOOL
            THEN Thrown("Invalid setting", key \o <<"=">> \o v)
            ELSE [out EXCEPT !.savetohistory = TruthyText(v)]
        ELSE IF key = S_align THEN
            IF lv \notin VALID_BOOL
            THEN Thrown("Invalid setting", key \o <<"=">> \o v)
            ELSE [out EXCEPT !.align = TruthyText(v)]
        ELSE IF key = S_case THEN
            IF lv \notin VALID_CASE
            THEN Thrown("Invalid setting", S_case \o <<"=">> \o v)
            ELSE [out EXCEPT !.case = lv]
        ELSE IF m.m THEN
            IF m.type = S_tag
            THEN [out EXCEPT !.replace.tag = Put(@, m.find, Str(v))]
            ELSE [out EXCEPT !.replace.val = Put(@, m.find, Str(v))]
        ELSE Thrown("Unknown setting", key)

\* a forEach that visits the lines from the last to the first, so that the first
\* line given for a key is the one that stays
RECURSIVE ParseLinesBackwards(_, _)
ParseLinesBackwards(out, lines) ==
    IF lines = << >> \/ out.st = "throw" THEN out
    ELSE ParseLinesBackwards(ParseLine(out, lines[Len(lines)]),
                             SubSeq(lines, 1, Len(lines) - 1))

\* forEach over the lines: the first throw ends the loop
RECURSIVE ParseLines(_, _)
ParseLines(out, lines) ==
    IF lines = << >> \/ out.st = "throw" THEN out
    ELSE ParseLines(ParseLine(out, Head(lines)), Tail(lines))

parseSettings(rawText) ==
    IF rawText = << >> THEN DefaultSettings
    ELSE ParseLines(DefaultSettings, splitLines(rawText))


(***************************************************************************)
(* JSON.parse and JSON.stringify, on the fragment the model's texts use:   *)
(* objects, arrays, strings without backslash escapes, integers, and the   *)
(* literals true, false and null.                                          *)
(***************************************************************************)
JFail == [ok |-> FALSE, v |-> Lit(S_null), i |-> 0]
JOk(x, next) == [ok |-> TRUE, v |-> x, i |-> next]

IsJsonWs(c) == c \in {" ", "\t", "\n", "\r"}

RECURSIVE SkipWs(_, _)
SkipWs(s, i) == IF i <= Len(s) /\ IsJsonWs(s[i]) THEN SkipWs(s, i + 1) ELSE i

At(s, i, c) == i <= Len(s) /\ s[i] = c
WordAt(s, i, w) == i + Len(w) - 1 <= Len(s) /\ SubSeq(s, i, i + Len(w) - 1) = w

\* the index of the quote that closes the string opened before i, or 0
RECURSIVE JStringEnd(_, _)
JStringEnd(s, i) ==
    IF i > Len(s) THEN 0
    ELSE IF s[i] = "\"" THEN i
    ELSE IF s[i] \in {"\n", "\r", "\t", "\\"} THEN 0
    ELSE JStringEnd(s, i + 1)

JString(s, i) ==
    LET e == JStringEnd(s, i + 1)
    IN  IF e = 0 THEN JFail ELSE JOk(Str(SubSeq(s, i + 1, e - 1)), e + 1)

RECURSIVE DigitsEnd(_, _)
DigitsEnd(s, i) == IF i <= Len(s) /\ IsDigit(s[i]) THEN DigitsEnd(s, i + 1) ELSE i

\* -?(0|[1-9][0-9]*)
JNumber(s, i) ==
    LET d == IF At(s, i, "-") THEN i + 1 ELSE i
        e == IF At(s, d, "0") THEN d + 1 ELSE DigitsEnd(s, d)
        n == DigitsVal(SubSeq(s, d, e - 1), 0)
    IN  IF e = d THEN JFail
        ELSE JOk(Num(IF d > i THEN 0 - n ELSE n), e)

RECURSIVE JValue(_, _)
RECURSIVE JElements(_, _, _)
RECURSIVE JMembers(_, _, _)

JValue(s, i) ==
    IF i > Len(s) THEN JFail
    ELSE IF s[i] = "\"" THEN JString(s, i)
    ELSE IF s[i] = "[" THEN
        LET j == SkipWs(s, i + 1)
        IN  IF At(s, j, "]") THEN JOk(Arr(<< >>), j + 1) ELSE JElements(s, j, << >>)
    ELSE IF s[i] = "{" THEN
        LET j == SkipWs(s, i + 1)
        IN  IF At(s, j, "}") THEN JOk(EmptyObj, j + 1) ELSE JMembers(s, j, EmptyObj)
    ELSE IF WordAt(s, i, S_true) THEN JOk(Lit(S_true), i + 4)
    ELSE IF WordAt(s, i, S_false) THEN JOk(Lit(S_false), i + 5)
    ELSE IF WordAt(s, i, S_null) THEN JOk(Lit(S_null), i + 4)
    ELSE JNumber(s, i)

JElements(s, i, acc) ==
    LET r == JValue(s, i)
        j == SkipWs(s, r.i)
    IN  IF ~r.ok THEN JFail
        ELSE IF At(s, j, ",") THEN JElements(s, SkipWs(s, j + 1), Append(acc, r.v))
        ELSE IF At(s, j, "]") THEN JOk(Arr(Append(acc, r.v)), j + 1)
        ELSE JFail

JMembers(s, i, acc) ==
    LET k == IF At(s, i, "\"") THEN JString(s, i) ELSE JFail
        c == SkipWs(s, k.i)
        r == IF k.ok /\ At(s, c, ":") THEN JValue(s, SkipWs(s, c + 1)) ELSE JFail
        j == SkipWs(s, r.i)
    IN  IF ~r.ok THEN JFail
        ELSE IF At(s, j, ",") THEN JMembers(s, SkipWs(s, j + 1), Put(acc, k.v.v, r.v))
        ELSE IF At(s, j, "}") THEN JOk(Put(acc, k.v.v, r.v), j + 1)
        ELSE JFail

\* JSON.parse(s): [ok |-> TRUE, v |-> the value], or ok FALSE for a SyntaxError
JSONparse(s) ==
    LET r == JValue(s, SkipWs(s, 1))
    IN  IF r.ok /\ SkipWs(s, r.i) = Len(s) + 1 THEN [ok |-> TRUE, v |-> r.v]
        ELSE [ok |-> FALSE, v |-> Lit(S_null)]

\* a string as JSON.stringify quotes it
RECURSIVE JEscape(_)
JEscape(s) ==
    IF s = << >> THEN << >>
    ELSE (CASE Head(s) = "\"" -> <<"\\", "\"">>
            [] Head(s) = "\\" -> <<"\\", "\\">>
            [] Head(s) = "\n" -> <<"\\", "n">>
            [] Head(s) = "\r" -> <<"\\", "r">>
            [] Head(s) = "\t" -> <<"\\", "t">>
            [] OTHER -> <<Head(s)>>) \o JEscape(Tail(s))
JQuote(s) == <<"\"">> \o JEscape(s) \o <<"\"">>

RECURSIVE Spaces(_)
Spaces(n) == IF n = 0 THEN << >> ELSE <<" ">> \o Spaces(n - 1)

\* JSON.stringify(x, null, gap) at nesting depth `depth`; gap 0 is the compact form
RECURSIVE Stringify(_, _, _)
RECURSIVE StringifyItems(_, _, _, _)
Stringify(x, gap, depth) ==
    IF x.t = "str" THEN JQuote(x.v)
    ELSE IF x.t = "num" THEN NumStr(x.v)
    ELSE IF x.t = "lit" THEN x.v
    ELSE IF x.v = << >> THEN (IF x.t = "arr" THEN <<"[", "]">> ELSE <<"{", "}">>)
    ELSE LET open == IF x.t = "arr" THEN <<"[">> ELSE <<"{">>
             close == IF x.t = "arr" THEN <<"]">> ELSE <<"}">>
             nl(d) == IF gap = 0 THEN << >> ELSE <<"\n">> \o Spaces(gap * d)
         IN  open \o nl(depth + 1) \o StringifyItems(x, 1, gap, depth + 1)
                  \o nl(depth) \o close

StringifyItems(x, j, gap, depth) ==
    LET item == IF x.t = "arr" THEN Stringify(x.v[j], gap, depth)
                ELSE JQuote(x.v[j][1]) \o (IF gap = 0 THEN <<":">> ELSE <<":", " ">>)
                     \o Stringify(x.v[j][2], gap, depth)
    IN  IF j = Len(x.v) THEN item
        ELSE item \o <<",">>
             \o (IF gap = 0 THEN << >> ELSE <<"\n">> \o Spaces(gap * depth))
             \o StringifyItems(x, j + 1, gap, depth)

JSONstringify(x) == Stringify(x, 0, 0)
JSONstringifyPretty(x) == Stringify(x, 2, 0)

(***************************************************************************)
(* FORMAT DETECTION  (detectFormat)                                        *)
(***************************************************************************)
\* /^---/.test(s)
DashStart(s) == startsWith(s, <<"-", "-", "-">>)

\* /:\s*[^:]+/m.test(s): a colon, any run of white space, then a character
\* that is not a colon
RECURSIVE RegexSpaceRun(_, _)
RegexSpaceRun(s, i) ==
    \/ i <= Len(s) /\ s[i] # ":"
    \/ i <= Len(s) /\ IsSpace(s[i]) /\ RegexSpaceRun(s, i + 1)
ColonValue(s) == \E p \in DOMAIN s : s[p] = ":" /\ RegexSpaceRun(s, p + 1)

\* a detector that looks for a comma before it tries JSON
detectFormatCommaFirst(str) ==
    LET trimmed == trim(str)
    IN  IF trimmed = << >> THEN S_unknown
        ELSE IF includes(trimmed, ",") THEN S_csv
        ELSE IF JSONparse(trimmed).ok THEN S_json
        ELSE IF DashStart(trimmed) \/ ColonValue(trimmed) THEN S_yaml
        ELSE IF startsWith(trimmed, <<"<">>) /\ endsWith(trimmed, <<">">>) THEN S_xml
        ELSE S_unknown

detectFormat(str) ==
    LET trimmed == trim(str)
    IN  IF trimmed = << >> THEN S_unknown
        ELSE IF JSONparse(trimmed).ok THEN S_json
        ELSE IF DashStart(trimmed) \/ ColonValue(trimmed) THEN S_yaml
        ELSE IF startsWith(trimmed, <<"<">>) /\ endsWith(trimmed, <<">">>) THEN S_xml
        ELSE IF includes(trimmed, ",") THEN S_csv
        ELSE S_unknown


(***************************************************************************)
(* EMMET SECTION: jsonToEmmet                                              *)
(***************************************************************************)
S_undefined == <<"u","n","d","e","f","i","n","e","d">>
S_objectObject == <<"[","o","b","j","e","c","t"," ","O","b","j","e","c","t","]">>

\* String(x), which is also what a template literal and a property name make of x
RECURSIVE StringOf(_)
StringOf(x) ==
    IF x.t = "str" \/ x.t = "lit" THEN x.v
    ELSE IF x.t = "num" THEN NumStr(x.v)
    ELSE IF x.t = "obj" THEN S_objectObject
    ELSE join([j \in DOMAIN x.v |->
                  IF x.v[j].t = "lit" /\ x.v[j].v \in {S_null, S_undefined}
                  THEN << >> ELSE StringOf(x.v[j])], <<",">>)

\* `(inner)` when inner holds a "+", else inner
Grouped(inner) == IF includes(inner, "+") THEN <<"(">> \o inner \o <<")">> ELSE inner

RECURSIVE walk(_)
RECURSIVE walkEntry(_, _)
walk(node) ==
    IF isObject(node)
    THEN join([j \in DOMAIN node.v |-> walkEntry(node.v[j][1], node.v[j][2])], <<"+">>)
    ELSE IF isArray(node)
    THEN join([j \in DOMAIN node.v |-> walk(node.v[j])], <<"+">>)
    ELSE <<"{">> \o StringOf(node) \o <<"}">>

\* the callback of Object.entries(node).map in walk: one entry [k, v]
walkEntry(k, v) ==
    IF isArray(v) THEN
        IF v.v = << >> THEN k
        ELSE join([j \in DOMAIN v.v |->
                 LET el == v.v[j]
                 IN  IF ~isObject(el) /\ ~isArray(el)
                     THEN k \o <<"{">> \o StringOf(el) \o <<"}">>
                     ELSE IF isObject(el) /\ el.v = << >> THEN k
                     ELSE k \o <<">">> \o Grouped(walk(el))], <<"+">>)
    ELSE IF isObject(v) THEN k \o <<">">> \o Grouped(walk(v))
    ELSE k \o <<"{">> \o StringOf(v) \o <<"}">>

jsonToEmmet(json) == walk(json)

\* mergeJSON(a, b): b's entries folded into a copy of a
RECURSIVE MergeEntries(_, _)
MergeEntries(res, entries) ==
    IF entries = << >> THEN res
    ELSE LET k == entries[1][1]
             v == entries[1][2]
             prev == Get(res, k)
         IN  MergeEntries(
                 IF HasKey(res, k)
                 THEN Put(res, k, IF isArray(prev) THEN Arr(Append(prev.v, v))
                                  ELSE Arr(<<prev, v>>))
                 ELSE Put(res, k, v),
                 Tail(entries))
mergeJSON(a, b) == MergeEntries(a, b.v)


(***************************************************************************)
(* EMMET SECTION: emmetToJSON                                              *)
(*                                                                         *)
(* The cursor i counts the characters consumed, as in the code.  Every     *)
(* parsing function gives back [st, i, v]: st is "ok" with the cursor and  *)
(* the value, "throw" with the error, or "runaway" when its loop cannot    *)
(* end (see parseIdent).  The parser's objects are changed in place in the *)
(* code; here getParentPtr gives the path of keys to the object it         *)
(* returns, and a change to that object is written back along the path.    *)
(***************************************************************************)
S_name == <<"n","a","m","e">>
S_value == <<"v","a","l","u","e">>
S_group == <<"_","_","g","r","o","u","p">>

POk(i, x) == [st |-> "ok", i |-> i, v |-> x]
PThrow(i, message) == [st |-> "throw", i |-> i, v |-> message]
PRunaway(i) == [st |-> "runaway", i |-> i, v |-> "out of memory"]

\* str[i]: a character, or undefined past the end
peek(s, i) == IF i < Len(s) THEN s[i + 1] ELSE "undefined"

\* /[A-Za-z0-9_-]/.test(c): test() turns its argument into a string first, and
\* the string "undefined" holds letters
isIdentChar(c) ==
    \/ c = "undefined"
    \/ IsUpper(c) \/ IsLower(c) \/ IsDigit(c) \/ c \in {"_", "-"}

\* while (isIdentChar(peek())) out += next();  Past the end of the input the
\* condition stays true: the cursor leaves the input and the loop only stops
\* when the engine gives up on the growing string.
RECURSIVE parseIdentLoop(_, _, _)
parseIdentLoop(s, i, out) ==
    IF isIdentChar(peek(s, i))
    THEN IF i >= Len(s) THEN PRunaway(i + 1)
         ELSE parseIdentLoop(s, i + 1, Append(out, s[i + 1]))
    ELSE IF out = << >> THEN PThrow(i, "Expected identifier")
    ELSE POk(i, out)
parseIdent(s, i) == parseIdentLoop(s, i, << >>)

\* /[0-9]/.test(peek()) is false past the end; Number("") is 0
parseNumber(s, i) ==
    LET e == DigitsEnd(s, i + 1) - 1
    IN  POk(e, DigitsVal(SubSeq(s, i + 1, e), 0))

RECURSIVE TextEnd(_, _)
TextEnd(s, i) == IF i < Len(s) /\ s[i + 1] # "}" THEN TextEnd(s, i + 1) ELSE i
\* the text up to "}", then eat("}")
parseText(s, i) ==
    LET e == TextEnd(s, i)
    IN  IF peek(s, e) = "}" THEN POk(e + 1, SubSeq(s, i + 1, e))
        ELSE PThrow(e, "Unexpected token")

\* { name, value } and { __group: group }
Term(name, value) == Obj(<< <<S_name, Str(name)>>, <<S_value, value>> >>)
Group(g) == Obj(<< <<S_group, g>> >>)
IsGroup(x) == HasKey(x, S_group)
repeat(x, n) == Arr([j \in 1..n |-> x])

RECURSIVE parseTerm(_, _)
RECURSIVE parseChain(_, _)
RECURSIVE chainLoop(_, _, _)
RECURSIVE parseNode(_, _)

\* what parseTerm's return would be if the count were always honoured
TermReturnAlwaysRepeats(i, name, count, value) ==
    POk(i, Term(name, repeat(value, count)))

\* parseTerm, statement by statement; each operator takes what the statements
\* before it have produced.
\* return { name, value }, after `if (count > 1) value = repeat(value, count)`
TermReturn(i, name, count, value) ==
    POk(i, Term(name, IF count > 1 THEN repeat(value, count) ELSE value))

\* value = child.__group ? child.__group : child
TermChild(name, count, child) ==
    IF child.st # "ok" THEN child
    ELSE TermReturn(child.i, name, count,
                    IF IsGroup(child.v) THEN Get(child.v, S_group) ELSE child.v)

\* if (eat(">")) { const child = parseTerm(); ... }
TermValue(s, i, name, count, value) ==
    IF peek(s, i) = ">" THEN TermChild(name, count, parseTerm(s, i + 1))
    ELSE TermReturn(i, name, count, value)

\* value = parseText()
TermText(s, name, count, txt) ==
    IF txt.st # "ok" THEN txt ELSE TermValue(s, txt.i, name, count, Str(txt.v))

\* let value = {}; if (eat("{")) value = parseText()
TermCount(s, name, cnt) ==
    IF peek(s, cnt.i) = "{" THEN TermText(s, name, cnt.v, parseText(s, cnt.i + 1))
    ELSE TermValue(s, cnt.i, name, cnt.v, EmptyObj)

\* let count = 1; if (eat("*")) count = parseNumber()
TermIdent(s, id) ==
    IF id.st # "ok" THEN id
    ELSE TermCount(s, id.v, IF peek(s, id.i) = "*" THEN parseNumber(s, id.i + 1)
                            ELSE POk(id.i, 1))

\* if (eat("(")) { const group = parseNode(); ... return { __group: group } }
TermGroup(s, g) ==
    IF g.st # "ok" THEN g
    ELSE IF peek(s, g.i) # ")" THEN PThrow(g.i, "Expected ')'")
    ELSE POk(g.i + 1, Group(g.v))

parseTerm(s, i) ==
    IF peek(s, i) = "(" THEN TermGroup(s, parseNode(s, i + 1))
    ELSE TermIdent(s, parseIdent(s, i))

\* coerce: String(Number(v)) === v ? Number(v) : v
coerce(v) == IF IsCanonicalInt(v) THEN Num(CanonicalIntVal(v)) ELSE Str(v)

\* flatten: anything that looks like { name, value } becomes { [name]: value }
RECURSIVE flatten(_)
flatten(node) ==
    IF isObject(node) /\ HasKey(node, S_name) /\ HasKey(node, S_value)
       /\ isString(Get(node, S_name))
    THEN Obj(<< <<Get(node, S_name).v, flatten(Get(node, S_value))>> >>)
    ELSE IF isArray(node) THEN Arr([j \in DOMAIN node.v |-> flatten(node.v[j])])
    ELSE node

buildObj(term) ==
    LET name == Get(term, S_name).v
        value == Get(term, S_value)
    IN  IF isArray(value)
        THEN Obj(<< <<name, Arr([j \in DOMAIN value.v |->
                         IF value.v[j].t \in {"str", "num"}
                         THEN (IF isString(value.v[j]) THEN coerce(value.v[j].v)
                               ELSE value.v[j])
                         ELSE flatten(value.v[j])])>> >>)
        ELSE IF value # Str(<< >>)
        THEN (IF isString(value) THEN Obj(<< <<name, coerce(value.v)>> >>)
              ELSE Obj(<< <<name, flatten(value)>> >>))
        ELSE Obj(<< <<name, EmptyObj>> >>)

\* term.__group ? term.__group : buildObj(term)
TermObject(term) == IF IsGroup(term) THEN Get(term, S_group) ELSE buildObj(term)


\* getParentPtr, as the keys leading from the tree to the object it returns:
\* it walks down while the object has one key and that key holds an object
RECURSIVE ParentPath(_)
ParentPath(obj) ==
    IF Len(obj.v) = 1 /\ isObject(obj.v[1][2])
    THEN <<obj.v[1][1]>> \o ParentPath(obj.v[1][2])
    ELSE << >>

RECURSIVE PathGet(_, _)
PathGet(obj, path) ==
    IF path = << >> THEN obj ELSE PathGet(Get(obj, Head(path)), Tail(path))

\* the tree once the object at `path` has become `new`
RECURSIVE PathPut(_, _, _)
PathPut(obj, path, new) ==
    IF path = << >> THEN new
    ELSE Put(obj, Head(path), PathPut(Get(obj, Head(path)), Tail(path), new))

getParentPtr(tree) == PathGet(tree, ParentPath(tree))

Truthy(x) ==
    IF x.t = "str" THEN x.v # << >>
    ELSE IF x.t = "num" THEN x.v # 0
    ELSE IF x.t = "lit" THEN x.v = S_true
    ELSE TRUE

\* target[key] = x where target is what parentPtr[parentKey] holds.  An object
\* takes the property.  An array takes an element when key is an index, the
\* gap filled with holes; any other name on an array is seen by none of the
\* encoders.  Strict mode refuses a property on a string or a number.
SetOn(target, key, x) ==
    IF isObject(target) THEN [ok |-> TRUE, v |-> Put(target, key, x)]
    ELSE IF isArray(target) THEN
        IF IsIndexKey(key)
        THEN LET n == DigitsVal(key, 0) + 1
             IN  [ok |-> TRUE,
                  v |-> Arr([j \in 1..(IF n > Len(target.v) THEN n ELSE Len(target.v)) |->
                              IF j = n THEN x
                              ELSE IF j <= Len(target.v) THEN target.v[j]
                              ELSE Lit(S_undefined)])]
        ELSE [ok |-> TRUE, v |-> target]
    ELSE [ok |-> FALSE, v |-> target]

\* the `>` branch of parseChain's loop on the object getParentPtr returned;
\* more: another `>` follows
attachChild(parentPtr, childOb, more) ==
    LET parentKey == parentPtr.v[1][1]
        first == childOb.v[1][2]
        special == /\ Len(childOb.v) = 1
                   /\ isObject(first)
                   /\ HasKey(first, S_name)
                   /\ HasKey(first, S_value)
        key == IF special THEN StringOf(Get(first, S_name)) ELSE childOb.v[1][1]
        x == IF special THEN Get(first, S_value) ELSE first
        set == SetOn(parentPtr.v[1][2], key, x)
        attached == Put(parentPtr, parentKey, set.v)
        childKey == childOb.v[1][1]
        kept == IF HasKey(attached, childKey) /\ Truthy(Get(attached, childKey))
                THEN Get(attached, childKey)
                ELSE IF Truthy(first) THEN first
                ELSE EmptyObj
    IN  IF parentPtr.v = << >> \/ ~set.ok THEN [ok |-> FALSE, v |-> parentPtr]
        ELSE IF more THEN [ok |-> TRUE, v |-> Put(attached, childKey, kept)]
        ELSE [ok |-> TRUE, v |-> attached]

\* the `>` branch once the child term is parsed: attach it under the object
\* at `path`
ChainChild(s, tree, path, child) ==
    IF child.st # "ok" THEN child
    ELSE IF ~attachChild(PathGet(tree, path), TermObject(child.v),
                         peek(s, child.i) = ">").ok
    THEN PThrow(child.i, "TypeError")
    ELSE chainLoop(s, child.i,
                   PathPut(tree, path,
                           attachChild(PathGet(tree, path), TermObject(child.v),
                                       peek(s, child.i) = ">").v))

\* the `+` branch once the sibling term is parsed: merge it into the object at
\* `path`
ChainSibling(s, tree, path, sibling) ==
    IF sibling.st # "ok" THEN sibling
    ELSE chainLoop(s, sibling.i,
                   PathPut(tree, path,
                           MergeEntries(PathGet(tree, path), TermObject(sibling.v).v)))

\* the while (true) loop of parseChain, on the tree built so far
chainLoop(s, i, tree) ==
    IF peek(s, i) = ">" THEN ChainChild(s, tree, ParentPath(tree), parseTerm(s, i + 1))
    ELSE IF peek(s, i) = "+"
    THEN ChainSibling(s, tree, ParentPath(tree), parseTerm(s, i + 1))
    ELSE POk(i, tree)

\* let tree = term.__group ? term.__group : buildObj(term), then the loop
ChainStart(s, firstTerm) ==
    IF firstTerm.st # "ok" THEN firstTerm
    ELSE chainLoop(s, firstTerm.i, TermObject(firstTerm.v))

parseChain(s, i) == ChainStart(s, parseTerm(s, i))

\* while (eat("+")) { const rhs = parseChain(); chain = mergeJSON(chain, rhs) }
RECURSIVE nodeLoop(_, _, _)
NodeMerge(s, chain, rhs) ==
    IF rhs.st # "ok" THEN rhs ELSE nodeLoop(s, rhs.i, mergeJSON(chain, rhs.v))
nodeLoop(s, i, chain) ==
    IF peek(s, i) = "+" THEN NodeMerge(s, chain, parseChain(s, i + 1))
    ELSE POk(i, chain)

NodeStart(s, chain) ==
    IF chain.st # "ok" THEN chain ELSE nodeLoop(s, chain.i, chain.v)

parseNode(s, i) == NodeStart(s, parseChain(s, i))

\* emmetToJSON without its final test: whatever the top-level parse returned
TrailingCheckLenient(str, tree) == tree

\* if (i < str.length) throw Error("Unexpected trailing input")
TrailingCheck(str, tree) ==
    IF tree.st = "ok" /\ tree.i # Len(str)
    THEN PThrow(tree.i, "Unexpected trailing input")
    ELSE tree

emmetToJSON(str) == TrailingCheck(str, parseNode(str, 0))


(***************************************************************************)
(* Case helpers, transformKeys and applyReplacements                       *)
(***************************************************************************)
\* \w
IsWordChar(c) == IsUpper(c) \/ IsLower(c) \/ IsDigit(c) \/ c = "_"

\* s.replace(/[-_](\w)/g, (_, c) => c.toUpperCase())
RECURSIVE toCamel(_)
toCamel(s) ==
    IF s = << >> THEN << >>
    ELSE IF Head(s) \in {"-", "_"} /\ Len(s) >= 2 /\ IsWordChar(s[2])
    THEN <<toUpperChar(s[2])>> \o toCamel(Tail(Tail(s)))
    ELSE <<Head(s)>> \o toCamel(Tail(s))

\* s.replace(/[A-Z]/g, (c) => "_" + c.toLowerCase())
RECURSIVE toSnake(_)
toSnake(s) ==
    IF s = << >> THEN << >>
    ELSE IF IsUpper(Head(s)) THEN <<"_", toLowerChar(Head(s))>> \o toSnake(Tail(s))
    ELSE <<Head(s)>> \o toSnake(Tail(s))

toUpper(s) == toUpperCase(s)

\* CASE_FNS[mode] || ((s) => s), applied to a key
CaseFn(mode, k) ==
    IF mode = S_camel THEN toCamel(k)
    ELSE IF mode = S_snake THEN toSnake(k)
    ELSE IF mode = S_upper THEN toUpper(k)
    ELSE k

RECURSIVE transformKeys(_, _)
transformKeys(obj, mode) ==
    IF isArray(obj) THEN Arr([j \in DOMAIN obj.v |-> transformKeys(obj.v[j], mode)])
    ELSE IF ~isObject(obj) THEN obj
    ELSE fromEntries([j \in DOMAIN obj.v |->
             <<CaseFn(mode, obj.v[j][1]), transformKeys(obj.v[j][2], mode)>>])

\* the inner walk of applyReplacements; tagMap and valMap are opts.replace.tag
\* and opts.replace.val.  opts.replace.tag[k] is a plain property read: for a
\* key the map does not own it finds what the map inherits, and for the key
\* __proto__ that is Object.prototype, a truthy object whose property-key form
\* is "[object Object]".  (The other inherited names, such as "constructor",
\* and maps with the source __proto__ are not among the model's inputs.)
S_proto == <<"_", "_", "p", "r", "o", "t", "o", "_", "_">>

\* opts.replace.tag[k] || k, as a property key
TagFor(tagMap, k) ==
    IF HasKey(tagMap, k) THEN (IF Truthy(Get(tagMap, k)) THEN Get(tagMap, k).v ELSE k)
    ELSE IF k = S_proto THEN S_objectObject
    ELSE k

RECURSIVE replaceWalk(_, _, _)
replaceWalk(node, tagMap, valMap) ==
    IF isArray(node) THEN Arr([j \in DOMAIN node.v |-> replaceWalk(node.v[j], tagMap, valMap)])
    ELSE IF isObject(node)
    THEN fromEntries([j \in DOMAIN node.v |->
             <<TagFor(tagMap, node.v[j][1]), replaceWalk(node.v[j][2], tagMap, valMap)>>])
    ELSE IF HasKey(valMap, StringOf(node)) THEN Get(valMap, StringOf(node))
    ELSE node

applyReplacements(obj, o) == replaceWalk(obj, o.replace.tag, o.replace.val)

(***************************************************************************)
(* CSV SECTION                                                             *)
(***************************************************************************)
\* Number(text) for the texts the model uses: white space around an optional
\* sign and decimal digits; "" and "  " give 0; anything else is NaN
NumberOf(textIn) ==
    LET t == trim(textIn)
        body == IF t # << >> /\ t[1] \in {"-", "+"} THEN Tail(t) ELSE t
    IN  IF t = << >> THEN [nan |-> FALSE, n |-> 0]
        ELSE IF AllDigits(body)
        THEN [nan |-> FALSE,
              n |-> IF t[1] = "-" THEN 0 - DigitsVal(body, 0) ELSE DigitsVal(body, 0)]
        ELSE [nan |-> TRUE, n |-> 0]

\* Object.entries(x): own enumerable properties; null has none to give
ObjectEntries(x) ==
    IF x.t = "obj" THEN x.v
    ELSE IF x.t = "arr" THEN [j \in DOMAIN x.v |-> <<NatStr(j - 1), x.v[j]>>]
    ELSE IF x.t = "str" THEN [j \in DOMAIN x.v |-> <<NatStr(j - 1), Str(<<x.v[j]>>)>>]
    ELSE << >>

\* Object.assign(acc, src)
RECURSIVE Assign(_, _)
Assign(acc, entries) ==
    IF entries = << >> THEN acc
    ELSE Assign(Put(acc, entries[1][1], entries[1][2]), Tail(entries))

\* flattenObject(obj, prefix); prefix << >> stands for every falsy prefix
RECURSIVE flattenObject(_, _)
RECURSIVE FlattenReduce(_, _, _)
FlattenReduce(entries, prefix, acc) ==
    IF entries = << >> THEN acc
    ELSE LET key == entries[1][1]
             v == entries[1][2]
             newKey == IF prefix # << >> THEN prefix \o <<".">> \o key ELSE key
         IN  FlattenReduce(Tail(entries), prefix,
                 IF isObject(v) THEN Assign(acc, flattenObject(v, newKey).v)
                 ELSE Put(acc, newKey, v))
flattenObject(obj, prefix) == FlattenReduce(ObjectEntries(obj), prefix, EmptyObj)

\* arr.map(flattenObject): map hands the callback the element and its index,
\* so the index arrives as the prefix; index 0 is falsy
FlattenRow(el, index) == flattenObject(el, IF index = 0 THEN << >> ELSE NatStr(index))

\* Array.from(new Set(keys)): first occurrences, in order
RECURSIVE Unique(_, _)
Unique(keys, seen) ==
    IF keys = << >> THEN seen
    ELSE Unique(Tail(keys),
                IF Head(keys) \in Range(seen) THEN seen ELSE Append(seen, Head(keys)))

RECURSIVE Concat(_)
Concat(seqs) == IF seqs = << >> THEN << >> ELSE Head(seqs) \o Concat(Tail(seqs))

\* `"${String(cell).replace(/"/g, '""')}"`
RECURSIVE DoubleQuotes(_)
DoubleQuotes(s) ==
    IF s = << >> THEN << >>
    ELSE (IF Head(s) = "\"" THEN <<"\"", "\"">> ELSE <<Head(s)>>) \o DoubleQuotes(Tail(s))

\* one cell of a data row: row[c] ?? "", quoted when it holds a comma or a quote
CsvCell(row, c) ==
    LET cell == IF HasKey(row, c) /\ ~(Get(row, c).t = "lit"
                                       /\ Get(row, c).v \in {S_null, S_undefined})
                THEN StringOf(Get(row, c)) ELSE << >>
    IN  IF includes(cell, ",") \/ includes(cell, "\"")
        THEN <<"\"">> \o DoubleQuotes(cell) \o <<"\"">>
        ELSE cell

\* jsonToCSV(data); Object.entries(null) in flattenObject is a TypeError
jsonToCSV(dataIn) ==
    LET arr == IF isArray(dataIn) THEN dataIn.v ELSE <<dataIn>>
        flat == [j \in DOMAIN arr |-> FlattenRow(arr[j], j - 1)]
        cols == Unique(Concat([j \in DOMAIN flat |-> Keys(flat[j])]), << >>)
        header == join(cols, <<",">>)
        rows == [j \in DOMAIN flat |->
                    join([c \in DOMAIN cols |-> CsvCell(flat[j], cols[c])], <<",">>)]
    IN  IF \E j \in DOMAIN arr : arr[j].t = "lit" /\ arr[j].v \in {S_null, S_undefined}
        THEN [ok |-> FALSE, v |-> << >>]
        ELSE [ok |-> TRUE, v |-> header \o <<"\n">> \o join(rows, <<"\n">>)]

\* one key of unflattenObject's loop: walk the parts from ptr, at `path` in out
RECURSIVE UnflattenParts(_, _, _, _)
UnflattenParts(out, path, parts, cell) ==
    LET ptr == PathGet(out, path)
        part == Head(parts)
        num == NumberOf(cell)
        leaf == IF ~num.nan /\ trim(cell) # << >> THEN Num(num.n) ELSE Str(cell)
        kept == IF HasKey(ptr, part) /\ Truthy(Get(ptr, part)) THEN Get(ptr, part)
                ELSE EmptyObj
    IN  IF ~isObject(ptr) /\ ~isArray(ptr) THEN [ok |-> FALSE, v |-> out]
        ELSE IF Len(parts) = 1 THEN [ok |-> TRUE, v |-> PathPut(out, path, Put(ptr, part, leaf))]
        ELSE UnflattenParts(PathPut(out, path, Put(ptr, part, kept)),
                            Append(path, part), Tail(parts), cell)

\* unflattenObject(flat): a part that already holds a string or a number
\* cannot take a property (strict mode): TypeError
RECURSIVE UnflattenLoop(_, _)
UnflattenLoop(out, entries) ==
    IF entries = << >> THEN [ok |-> TRUE, v |-> out]
    ELSE LET r == UnflattenParts(out, << >>, split(entries[1][1], "."), entries[1][2].v)
         IN  IF ~r.ok THEN r ELSE UnflattenLoop(r.v, Tail(entries))
unflattenObject(flat) == UnflattenLoop(EmptyObj, flat.v)

\* csvToJSON(text)
csvToJSON(textIn) ==
    LET all == splitLines(trim(textIn))
        headerLine == all[1]
        lines == Tail(all)
        cols == split(headerLine, ",")
        objects == [j \in DOMAIN lines |->
                       LET cells == split(lines[j], ",")
                       IN  unflattenObject(fromEntries([c \in DOMAIN cols |->
                               <<cols[c], Str(IF c <= Len(cells) THEN cells[c] ELSE << >>)>>]))]
    IN  IF headerLine = << >> THEN [ok |-> TRUE, v |-> Arr(<< >>)]
        ELSE IF \E j \in DOMAIN objects : ~objects[j].ok THEN [ok |-> FALSE, v |-> Arr(<< >>)]
        ELSE IF Len(objects) = 1 THEN [ok |-> TRUE, v |-> objects[1].v]
        ELSE [ok |-> TRUE, v |-> Arr([j \in DOMAIN objects |-> objects[j].v])]

(***************************************************************************)
(* XML SECTION                                                             *)
(***************************************************************************)
S_root == <<"r", "o", "o", "t">>
S_record == <<"r", "e", "c", "o", "r", "d">>
S_hashText == <<"#", "t", "e", "x", "t">>
S_parsererror == <<"p", "a", "r", "s", "e", "r", "e", "r", "r", "o", "r">>

\* buildXML(node, tagName, indent) with pad = "  "
RECURSIVE buildXML(_, _, _)
buildXML(node, tagName, indent) ==
    IF isArray(node)
    THEN Concat([j \in DOMAIN node.v |-> buildXML(node.v[j], tagName, indent)])
    ELSE IF ~isObject(node)
    THEN indent \o <<"<">> \o tagName \o <<">">> \o StringOf(node)
         \o <<"<", "/">> \o tagName \o <<">", "\n">>
    ELSE indent \o <<"<">> \o tagName \o <<">", "\n">>
         \o Concat([j \in DOMAIN node.v |->
                       buildXML(node.v[j][2], node.v[j][1], indent \o <<" ", " ">>)])
         \o indent \o <<"<", "/">> \o tagName \o <<">", "\n">>

jsonToXML(obj) ==
    IF isArray(obj)
    THEN <<"<">> \o S_root \o <<">", "\n">>
         \o Concat([j \in DOMAIN obj.v |-> buildXML(obj.v[j], S_record, <<" ", " ">>)])
         \o <<"<", "/">> \o S_root \o <<">">>
    ELSE trim(buildXML(obj, S_root, << >>))

\* The document DOMParser builds: elements with child nodes, and text nodes.
Element(nodeName, childNodes) == [kind |-> "el", name |-> nodeName, kids |-> childNodes]
TextNode(nodeValue) == [kind |-> "text", value |-> nodeValue]

IsNameStart(c) == IsUpper(c) \/ IsLower(c) \/ c \in {"_", ":"}
IsNameChar(c) == IsNameStart(c) \/ IsDigit(c) \/ c \in {"-", "."}

\* the end (exclusive) of the run of name characters from i
RECURSIVE NameEnd(_, _)
NameEnd(s, i) == IF i <= Len(s) /\ IsNameChar(s[i]) THEN NameEnd(s, i + 1) ELSE i

\* the end (exclusive) of the character data from i
RECURSIVE CharDataEnd(_, _)
CharDataEnd(s, i) == IF i <= Len(s) /\ s[i] # "<" THEN CharDataEnd(s, i + 1) ELSE i

XFail == [ok |-> FALSE, i |-> 0, node |-> TextNode(<< >>)]

\* XML 1.0 element and content productions for documents made of start tags,
\* end tags, empty-element tags and character data (no attributes, references,
\* comments, CDATA sections, processing instructions or prolog)
RECURSIVE XElement(_, _)
RECURSIVE XContent(_, _, _)
XContent(s, i, kids) ==
    IF i > Len(s) THEN [ok |-> FALSE, i |-> i, kids |-> kids]
    ELSE IF s[i] = "<" /\ At(s, i + 1, "/") THEN [ok |-> TRUE, i |-> i, kids |-> kids]
    ELSE IF s[i] = "<"
    THEN LET e == XElement(s, i)
         IN  IF ~e.ok THEN [ok |-> FALSE, i |-> i, kids |-> kids]
             ELSE XContent(s, e.i, Append(kids, e.node))
    ELSE LET j == CharDataEnd(s, i)
             chars == SubSeq(s, i, j - 1)
         IN  IF includes(chars, "&") THEN [ok |-> FALSE, i |-> i, kids |-> kids]
             ELSE XContent(s, j, Append(kids, TextNode(chars)))
XElement(s, i) ==
    IF ~(At(s, i, "<") /\ i + 1 <= Len(s) /\ IsNameStart(s[i + 1])) THEN XFail
    ELSE LET j == NameEnd(s, i + 1)
             nm == SubSeq(s, i + 1, j - 1)
         IN  IF At(s, j, "/") /\ At(s, j + 1, ">")
             THEN [ok |-> TRUE, i |-> j + 2, node |-> Element(nm, << >>)]
             ELSE IF ~At(s, j, ">") THEN XFail
             ELSE LET c == XContent(s, j + 1, << >>)
                      k == c.i + 2 + Len(nm)
                  IN  IF c.ok /\ k <= Len(s) /\ SubSeq(s, c.i + 2, k - 1) = nm
                         /\ s[k] = ">"
                      THEN [ok |-> TRUE, i |-> k + 1, node |-> Element(nm, c.kids)]
                      ELSE XFail

\* is the text a well-formed document: one element, white space around it
WellFormedXml(xmlStr) ==
    LET e == XElement(xmlStr, SkipWs(xmlStr, 1))
    IN  e.ok /\ SkipWs(xmlStr, e.i) > Len(xmlStr)

\* parser.parseFromString(xmlStr, "application/xml").documentElement: the
\* possible roots.  A text that is not well formed does not throw: the document
\* then has the single root element parsererror, whose content is the parser's
\* choice.
ParserErrorText == <<"e", "r", "r", "o", "r">>
parseFromString(xmlStr) ==
    IF WellFormedXml(xmlStr) THEN {XElement(xmlStr, SkipWs(xmlStr, 1)).node}
    ELSE {Element(S_parsererror, << >>),
          Element(S_parsererror, <<TextNode(ParserErrorText)>>)}

\* The function-valued members every object literal inherits from
\* Object.prototype: obj[name] finds them although obj has no such key.
S_constructor == <<"c","o","n","s","t","r","u","c","t","o","r">>
ObjectPrototypeFunctions ==
    {S_constructor, <<"t","o","S","t","r","i","n","g">>, <<"v","a","l","u","e","O","f">>, <<"h","a","s","O","w","n","P","r","o","p","e","r","t","y">>}
NativeFunction(name) == [t |-> "fn", v |-> name]

\* xmlNodeToJSON(node)
RECURSIVE xmlNodeToJSON(_)
RECURSIVE XmlChildren(_, _)
XmlChildren(obj, kids) ==
    IF kids = << >> THEN obj
    ELSE LET child == Head(kids)
             v == xmlNodeToJSON(child)
             tagName == IF child.kind = "text" THEN S_hashText ELSE child.name
             old == Get(obj, tagName)
         IN  XmlChildren(
                 IF v.t = "str" /\ v.v = << >> THEN obj
                 ELSE IF HasKey(obj, tagName) /\ Truthy(old)
                 THEN Put(obj, tagName,
                          Arr(Append(IF isArray(old) THEN old.v ELSE <<old>>, v)))
                 ELSE IF ~HasKey(obj, tagName) /\ tagName \in ObjectPrototypeFunctions
                 THEN Put(obj, tagName, Arr(<<NativeFunction(tagName), v>>))
                 ELSE Put(obj, tagName, v),
                 Tail(kids))
xmlNodeToJSON(node) ==
    IF node.kind = "text"
    THEN coerce(trim(node.value))
    ELSE XmlChildren(EmptyObj, node.kids)

\* unwrap: collapse { "#text": value } into value
RECURSIVE unwrap(_)
unwrap(node) ==
    IF isArray(node) THEN Arr([j \in DOMAIN node.v |-> unwrap(node.v[j])])
    ELSE IF isObject(node)
    THEN IF Keys(node) = <<S_hashText>> THEN Get(node, S_hashText)
         ELSE fromEntries([j \in DOMAIN node.v |-> <<node.v[j][1], unwrap(node.v[j][2])>>])
    ELSE node

\* xmlToJSON(xmlStr), given the root the parser produced
xmlToJSON(rootEl) == Obj(<< <<rootEl.name, unwrap(xmlNodeToJSON(rootEl))>> >>)

(***************************************************************************)
(* THE EMMET CODEC AS A STATE MACHINE                                      *)
(* A tree is handed to jsonToEmmet and the text it returns to emmetToJSON. *)
(***************************************************************************)
\* most keys (over all levels) of a tree handed to jsonToEmmet
MaxKeys == 3

EmmetKeys == {<<"a">>, <<"b">>}
EmmetLeaves == {Num(1), Str(<<"x">>), Str(<<"7">>),
                Arr(<<Str(<<"x">>), Str(<<"y">>)>>)}

\* the entry lists with exactly n keys over all levels, keys distinct per level
RECURSIVE EntriesOfSize(_)
EntriesOfSize(n) ==
    IF n = 0 THEN {<< >>}
    ELSE UNION {
           UNION {
             { <<<<k, x>>>> \o rest :
                 x \in (IF i = 0 THEN EmmetLeaves ELSE {})
                       \cup {Obj(e) : e \in EntriesOfSize(i)},
                 rest \in {r \in EntriesOfSize(n - 1 - i) :
                             \A j \in DOMAIN r : r[j][1] # k} }
             : i \in 0..(n - 1) }
           : k \in EmmetKeys }

Trees == {Obj(e) : e \in UNION {EntriesOfSize(n) : n \in 1..MaxKeys}}

Unused == << >>

InitEmmet ==
    /\ val \in Trees
    /\ pc = "encode"
    /\ text = << >>
    /\ dec = Unused
    /\ raw = Unused /\ inputStr = Unused /\ opts = Unused /\ inFmt = Unused
    /\ data = Unused /\ result = Unused /\ steps = Unused
    /\ jsyaml = Unused /\ scripts = Unused /\ calls = Unused

\* DataTransformer.jsonToEmmet(val)
JsonToEmmetCall ==
    /\ pc = "encode"
    /\ text' = jsonToEmmet(val)
    /\ pc' = "decode"
    /\ UNCHANGED <<raw, inputStr, opts, inFmt, data, result, steps, val, dec,
                   jsyaml, scripts, calls>>

\* DataTransformer.emmetToJSON(text)
EmmetToJsonCall ==
    /\ pc = "decode"
    /\ dec' = emmetToJSON(text)
    /\ pc' = "done"
    /\ UNCHANGED <<raw, inputStr, opts, inFmt, data, result, steps, val, text,
                   jsyaml, scripts, calls>>

NextEmmet == JsonToEmmetCall \/ EmmetToJsonCall

SpecEmmet == InitEmmet /\ [][NextEmmet]_vars

\* the numeric/string coercion rule applied throughout a tree: a string that
\* reads as a number is that number
RECURSIVE Coerced(_)
Coerced(x) ==
    IF x.t = "str" THEN coerce(x.v)
    ELSE IF x.t = "arr" THEN Arr([j \in DOMAIN x.v |-> Coerced(x.v[j])])
    ELSE IF x.t = "obj" THEN Obj([j \in DOMAIN x.v |-> <<x.v[j][1], Coerced(x.v[j][2])>>])
    ELSE x

\* C1: decoding the Emmet text of a mapping gives the mapping back, up to the
\* numeric/string coercion rule.
EmmetRoundTrip ==
    pc = "done" => dec.st = "ok" /\ Coerced(dec.v) = Coerced(val)

(***************************************************************************)
(* parseSettings AS A STATE MACHINE                                        *)
(* A directive text of up to MaxLines lines is handed to parseSettings.    *)
(***************************************************************************)
\* most lines of a directive text
MaxLines == 2

\* the lines directive texts are made of: blank, comment, each recognised key
\* in lower and mixed case, values inside and outside the enumerations, a line
\* without "=", repeated keys, an unknown key and a line with an empty key
SettingsLines ==
    {
     <<>>,
     <<"#"," ","n","o","t","e">>,
     <<"i","n","p","u","t","f","o","r","m","a","t","=","x","m","l">>,
     <<"I","n","p","u","t","F","o","r","m","a","t","=","J","S","O","N">>,
     <<"o","u","t","p","u","t","f","o","r","m","a","t","=","y","a","m","l">>,
     <<"o","u","t","p","u","t","f","o","r","m","a","t","=","a","u","t","o">>,
     <<"a","l","i","g","n","=","n","o">>,
     <<"A","L","I","G","N","=","Y","e","s">>,
     <<"a","l","i","g","n","=","m","a","y","b","e">>,
     <<"a","l","i","g","n">>,
     <<"c","a","s","e","=","s","n","a","k","e">>,
     <<"C","a","s","e","=","U","p","p","e","r">>,
     <<"s","a","v","e","t","o","h","i","s","t","o","r","y","=","1">>,
     <<"r","e","p","l","a","c","e",".","t","a","g",".","A","b","=","c">>,
     <<"r","e","p","l","a","c","e",".","t","a","g",".","A","b","=","d">>,
     <<"R","e","p","l","a","c","e",".","t","a","g",".","A","b","=","c">>,
     <<"r","e","p","l","a","c","e",".","v","a","l",".","x","=","a","=","b">>,
     <<"f","o","o","=","1">>,
     <<"=","5">>
    }

\* the texts of exactly n lines
RECURSIVE TextsOfLines(_)
TextsOfLines(n) ==
    IF n = 0 THEN {<< >>}
    ELSE IF n = 1 THEN SettingsLines
    ELSE {l \o <<"\n">> \o rest : l \in SettingsLines, rest \in TextsOfLines(n - 1)}

SettingsTexts == UNION {TextsOfLines(n) : n \in 0..MaxLines}

InitSettings ==
    /\ raw \in SettingsTexts
    /\ pc = "call"
    /\ opts = Unused
    /\ inputStr = Unused /\ inFmt = Unused /\ data = Unused /\ result = Unused
    /\ steps = Unused /\ val = Unused /\ text = Unused /\ dec = Unused
    /\ jsyaml = Unused /\ scripts = Unused /\ calls = Unused

\* DataTransformer.parseSettings(raw)
ParseSettingsCall ==
    /\ pc = "call"
    /\ opts' = parseSettings(raw)
    /\ pc' = "parsed"
    /\ UNCHANGED <<raw, inputStr, inFmt, data, result, steps, val, text, dec,
                   jsyaml, scripts, calls>>

NextSettings == ParseSettingsCall

SpecSettings == InitSettings /\ [][NextSettings]_vars

\* How a reader of the directive text sees it: its lines, and for a line the
\* key before the first "=" and the value after it.
RawLines == splitLines(raw)
IsDirective(line) == trim(line) # << >> /\ Head(trim(line)) # "#"
LineKey(line) == split(trim(line), "=")[1]
LineVal(line) == trim(join(Tail(split(trim(line), "=")), <<"=">>))
DirectiveLines == {j \in DOMAIN RawLines : IsDirective(RawLines[j])}

S_replaceTagDot == S_replaceDot \o S_tag \o <<".">>
S_replaceValDot == S_replaceDot \o S_val \o <<".">>
InFamily(k, prefix) == startsWith(toLowerCase(k), prefix) /\ Len(k) > Len(prefix)
FindKey(k) == SubSeq(k, Len(S_replaceTagDot) + 1, Len(k))

SimpleKeys == {S_inputformat, S_outputformat, S_align, S_case, S_savetohistory}
RecognizedKey(k) ==
    \/ toLowerCase(k) \in SimpleKeys
    \/ InFamily(k, S_replaceTagDot)
    \/ InFamily(k, S_replaceValDot)
ValueInEnumeration(k, v) ==
    LET lk == toLowerCase(k)
        lv == toLowerCase(v)
    IN  /\ lk = S_inputformat => lv \in VALID_INPUTS
        /\ lk = S_outputformat => lv \in VALID_OUTPUTS
        /\ lk \in {S_align, S_savetohistory} => lv \in VALID_BOOL
        /\ lk = S_case => lv \in VALID_CASE

\* the directive lines that give the simple key s, and the last of them
LinesFor(s) == {j \in DirectiveLines : toLowerCase(LineKey(RawLines[j])) = s}
Last(S) == CHOOSE j \in S : \A i \in S : i <= j
LastVal(s) == toLowerCase(LineVal(RawLines[Last(LinesFor(s))]))

\* C8: a directive line with an unrecognised key, or with a value outside its
\* key's enumeration, makes parseSettings throw, so no settings are returned.
SettingsErrorOnBadLine ==
    pc = "parsed" =>
        ((\E j \in DirectiveLines :
             \/ ~RecognizedKey(LineKey(RawLines[j]))
             \/ ~ValueInEnumeration(LineKey(RawLines[j]), LineVal(RawLines[j])))
         => opts.st = "throw")

\* C9: the five simple keys are recognised whatever their case, and the find-key
\* of every replace.tag / replace.val directive is stored with its case as
\* written.
KeyCaseRule ==
    (pc = "parsed" /\ opts.st = "ok") =>
        /\ \A s \in SimpleKeys : LinesFor(s) # {} =>
               /\ s = S_inputformat => opts.inputformat = LastVal(s)
               /\ s = S_outputformat => opts.outputformat = LastVal(s)
               /\ s = S_case => opts.case = LastVal(s)
               /\ s = S_align => opts.align = (LastVal(s) \notin {S_false, <<"0">>, S_no})
               /\ s = S_savetohistory =>
                      opts.savetohistory = (LastVal(s) \notin {S_false, <<"0">>, S_no})
        /\ \A j \in DirectiveLines :
               LET k == LineKey(RawLines[j])
               IN  /\ InFamily(k, S_replaceTagDot) => HasKey(opts.replace.tag, FindKey(k))
                   /\ InFamily(k, S_replaceValDot) => HasKey(opts.replace.val, FindKey(k))

\* the replace directives written with the lower-case prefix, per family
FamilyLines(prefix) ==
    {j \in DirectiveLines : startsWith(LineKey(RawLines[j]), prefix)
                            /\ Len(LineKey(RawLines[j])) > Len(prefix)}
LastWinsIn(map, prefix) ==
    \A j \in FamilyLines(prefix) :
        LET same == {i \in FamilyLines(prefix) : LineKey(RawLines[i]) = LineKey(RawLines[j])}
            find == FindKey(LineKey(RawLines[j]))
        IN  /\ HasKey(map, find)
            /\ Get(map, find) = Str(LineVal(RawLines[Last(same)]))

\* C10: in the settings parseSettings returns, a setting no line gives has its
\* default (inputformat auto, outputformat json, align true, case none,
\* savetohistory false, empty replacement maps), and a setting given several
\* times has the value of its last line, whatever the other lines set.
DefaultsAndLastWins ==
    (pc = "parsed" /\ opts.st = "ok") =>
        /\ opts.inputformat = IF LinesFor(S_inputformat) = {} THEN S_auto
                              ELSE LastVal(S_inputformat)
        /\ opts.outputformat = IF LinesFor(S_outputformat) = {} THEN S_json
                               ELSE LastVal(S_outputformat)
        /\ opts.case = IF LinesFor(S_case) = {} THEN S_none ELSE LastVal(S_case)
        /\ opts.align = IF LinesFor(S_align) = {} THEN TRUE
                        ELSE LastVal(S_align) \notin {S_false, <<"0">>, S_no}
        /\ opts.savetohistory = IF LinesFor(S_savetohistory) = {} THEN FALSE
                                ELSE LastVal(S_savetohistory) \notin {S_false, <<"0">>, S_no}
        /\ (\A j \in DirectiveLines : ~InFamily(LineKey(RawLines[j]), S_replaceTagDot))
               => opts.replace.tag = EmptyObj
        /\ (\A j \in DirectiveLines : ~InFamily(LineKey(RawLines[j]), S_replaceValDot))
               => opts.replace.val = EmptyObj
        /\ LastWinsIn(opts.replace.tag, S_replaceTagDot)
        /\ LastWinsIn(opts.replace.val, S_replaceValDot)

\* C10: a text that gives one key twice, with different values, and leaves
\* other settings alone has been parsed.
RepeatedKeyParsed ==
    /\ pc = "parsed" /\ opts.st = "ok"
    /\ \E i, j \in LinesFor(S_case) : i < j /\ LineVal(RawLines[i]) # LineVal(RawLines[j])
    /\ LinesFor(S_inputformat) = {} /\ LinesFor(S_align) = {}

(***************************************************************************)
(* detectFormat AS A STATE MACHINE                                         *)
(* An input text of up to MaxInputLen characters is handed to detectFormat.*)
(***************************************************************************)
\* most characters of a text handed to detectFormat
MaxInputLen == 4

\* enough to write JSON numbers and strings, "key:value" lines, a document
\* marker, tags, comma-separated cells and white space
DetectChars == {"1", ",", ":", " ", "<", ">", "\"", "-"}

RECURSIVE StringsOfLen(_, _)
StringsOfLen(chars, n) ==
    IF n = 0 THEN {<< >>}
    ELSE {<<c>> \o rest : c \in chars, rest \in StringsOfLen(chars, n - 1)}

DetectInputs == UNION {StringsOfLen(DetectChars, n) : n \in 0..MaxInputLen}

InitDetect ==
    /\ inputStr \in DetectInputs
    /\ pc = "call"
    /\ inFmt = Unused
    /\ raw = Unused /\ opts = Unused /\ data = Unused /\ result = Unused
    /\ steps = Unused /\ val = Unused /\ text = Unused /\ dec = Unused
    /\ jsyaml = Unused /\ scripts = Unused /\ calls = Unused

\* DataTransformer.detectFormat(inputStr)
DetectFormatCall ==
    /\ pc = "call"
    /\ inFmt' = detectFormat(inputStr)
    /\ pc' = "detected"
    /\ UNCHANGED <<raw, inputStr, opts, data, result, steps, val, text, dec,
                   jsyaml, scripts, calls>>

NextDetect == DetectFormatCall

SpecDetect == InitDetect /\ [][NextDetect]_vars

\* The heuristics as a reader of the text sees them.
Trimmed == trim(inputStr)
ParsesAsJson == JSONparse(Trimmed).ok
\* "---" in front, or somewhere a colon that is not followed by another colon
\* and is not the last character
LooksLikeYaml ==
    \/ Len(Trimmed) >= 3 /\ SubSeq(Trimmed, 1, 3) = <<"-", "-", "-">>
    \/ \E p \in 1..(Len(Trimmed) - 1) : Trimmed[p] = ":" /\ Trimmed[p + 1] # ":"
LooksLikeXml == Trimmed[1] = "<" /\ Trimmed[Len(Trimmed)] = ">"
HasComma == \E p \in DOMAIN Trimmed : Trimmed[p] = ","

\* C3: detectFormat answers with the first heuristic that matches, in the order
\* empty, json, yaml, xml, csv, unknown; so a text that parses as JSON is json
\* even with a comma or a "key: value" in it, and a text that matches nothing is
\* unknown.
DetectionOrder ==
    pc = "detected" =>
        inFmt = IF Trimmed = << >> THEN S_unknown
                ELSE IF ParsesAsJson THEN S_json
                ELSE IF LooksLikeYaml THEN S_yaml
                ELSE IF LooksLikeXml THEN S_xml
                ELSE IF HasComma THEN S_csv
                ELSE S_unknown

\* C3: a text that parses as JSON and also holds a comma or a colon followed by
\* a value has been classified.
JsonWithCommaDetected ==
    /\ pc = "detected"
    /\ Trimmed # << >> /\ ParsesAsJson
    /\ HasComma \/ LooksLikeYaml
    /\ inFmt = S_json

(***************************************************************************)
(* convert AS A STATE MACHINE                                              *)
(* One call convert(inputStr, raw).  pc is the statement the call has      *)
(* reached; steps lists the passes it has entered, in order.               *)
(***************************************************************************)
\* input texts: JSON, cut-off JSON, white space, XML, XML with a tag left open,
\* CSV, Emmet, Emmet with a text left open, YAML
ConvertInputs ==
    {<<"{","\"","a","_","b","\"",":","1","}">>,
     <<"{","\"","a","_","b","\"",":">>,
     <<" ">>,
     <<"<","a","_","b",">","1","<","/","a","_","b",">">>,
     <<"<","a",">","<","b",">","<","/","a",">">>,
     <<"a","_","b",",","c","\n","1",",","2">>,
     <<"a","_","b","{","1","}">>,
     <<"a","_","b","{","1">>,
     <<"a","_","b",":"," ","1">>}

\* the lines a settings text is put together from, one of each kind
InputFormatLines == {<<>>, <<"i","n","p","u","t","f","o","r","m","a","t","=","j","s","o","n">>, <<"i","n","p","u","t","f","o","r","m","a","t","=","x","m","l">>, <<"i","n","p","u","t","f","o","r","m","a","t","=","c","s","v">>, <<"i","n","p","u","t","f","o","r","m","a","t","=","e","m","m","e","t">>, <<"i","n","p","u","t","f","o","r","m","a","t","=","y","a","m","l">>}
OutputFormatLines == {<<>>, <<"o","u","t","p","u","t","f","o","r","m","a","t","=","x","m","l">>, <<"o","u","t","p","u","t","f","o","r","m","a","t","=","c","s","v">>, <<"o","u","t","p","u","t","f","o","r","m","a","t","=","e","m","m","e","t">>, <<"o","u","t","p","u","t","f","o","r","m","a","t","=","y","a","m","l">>}
OtherLines == {<<>>, <<"a","l","i","g","n","=","f","a","l","s","e">>, <<"c","a","s","e","=","c","a","m","e","l">>, <<"r","e","p","l","a","c","e",".","v","a","l",".","1","=","x">>, <<"f","o","o","=","1">>}
ReplaceLines == {<<>>, <<"r","e","p","l","a","c","e",".","t","a","g",".","a","B","=","k">>, <<"r","e","p","l","a","c","e",".","t","a","g",".","a","_","b","=","k">>}
ConvertSettings ==
    {join(<<i, o, c, r>>, <<"\n">>) :
        i \in InputFormatLines, o \in OutputFormatLines,
        c \in OtherLines, r \in ReplaceLines}

Pending == [st |-> "pending"]
Resolved(resultText) == [st |-> "resolved", v |-> resultText]
Rejected(why) == [st |-> "rejected", why |-> why]

\* js-yaml is not part of the repository.  jsYaml.load(text) throws or returns
\* a tree; jsYaml.dump(tree) returns a text.
YamlLoadOutcomes ==
    {[t |-> "throw", v |-> << >>],
     [t |-> "value", v |-> Obj(<< <<<<"a", "_", "b">>, Num(1)>> >>)]}
YamlDumpOutcomes == {<<"a", "_", "b", ":", " ", "1", "\n">>, <<"k", ":", " ", "1", "\n">>}

\* what the decoder of a format makes of the input text: a tree, a throw, or
\* (a parseIdent loop that never sees the end of the text) no return at all
\* until the engine gives up on the growing string
DecodeOutcomes(fmt, textIn) ==
    IF fmt = S_json
    THEN {IF JSONparse(textIn).ok THEN [t |-> "value", v |-> JSONparse(textIn).v]
          ELSE [t |-> "throw", v |-> << >>]}
    ELSE IF fmt = S_xml
    THEN {[t |-> "value", v |-> xmlToJSON(r)] : r \in parseFromString(textIn)}
    ELSE IF fmt = S_csv
    THEN {IF csvToJSON(textIn).ok THEN [t |-> "value", v |-> csvToJSON(textIn).v]
          ELSE [t |-> "throw", v |-> << >>]}
    ELSE IF fmt = S_emmet
    THEN LET r == emmetToJSON(trim(textIn))
         IN  IF r.st = "ok" THEN {[t |-> "value", v |-> r.v]}
             ELSE IF r.st = "throw" THEN {[t |-> "throw", v |-> << >>]}
             ELSE {[t |-> "throw", v |-> << >>], [t |-> "hang", v |-> << >>]}
    ELSE YamlLoadOutcomes

\* what the encoder of a format makes of the tree
EncodeOutcomes(fmt, tree, align) ==
    IF fmt = S_json
    THEN {[t |-> "value",
           v |-> IF align THEN JSONstringifyPretty(tree) ELSE JSONstringify(tree)]}
    ELSE IF fmt = S_xml THEN {[t |-> "value", v |-> jsonToXML(tree)]}
    ELSE IF fmt = S_csv
    THEN {IF jsonToCSV(tree).ok THEN [t |-> "value", v |-> jsonToCSV(tree).v]
          ELSE [t |-> "throw", v |-> << >>]}
    ELSE IF fmt = S_emmet THEN {[t |-> "value", v |-> jsonToEmmet(tree)]}
    ELSE {[t |-> "value", v |-> y] : y \in YamlDumpOutcomes}

needsChanges(o) ==
    \/ o.case # S_none
    \/ Len(Keys(o.replace.tag)) > 0
    \/ Len(Keys(o.replace.val)) > 0

InitConvert ==
    /\ inputStr \in ConvertInputs
    /\ raw \in ConvertSettings
    /\ pc = "settings"
    /\ opts = Unused /\ inFmt = Unused /\ data = Unused /\ dec = Unused
    /\ result = Pending
    /\ steps = << >>
    /\ jsyaml = FALSE
    /\ scripts = << >>
    /\ val = Unused /\ text = Unused /\ calls = Unused

\* const opts = parseSettings(settingsStr): a throw rejects the call
ConvertParseSettings ==
    /\ pc = "settings"
    /\ opts' = parseSettings(raw)
    /\ IF opts'.st = "throw"
       THEN result' = Rejected("settings") /\ pc' = "done"
       ELSE pc' = "resolve" /\ UNCHANGED result
    /\ UNCHANGED <<raw, inputStr, inFmt, data, steps, val, text, dec, jsyaml,
                   scripts, calls>>

\* a format resolution that lets an unknown format through to the decoders
ConvertResolveFormatLenient ==
    /\ pc = "resolve"
    /\ LET auto == opts.inputformat = S_auto
       IN  /\ inFmt' = IF auto THEN detectFormat(inputStr) ELSE opts.inputformat
           /\ steps' = IF auto THEN Append(steps, "detect") ELSE steps
    /\ pc' = "shortcut"
    /\ UNCHANGED <<raw, inputStr, opts, data, result, val, text, dec, jsyaml,
                   scripts, calls>>

\* let inFmt = ...; if (inFmt === "unknown") throw
ConvertResolveFormat ==
    /\ pc = "resolve"
    /\ LET auto == opts.inputformat = S_auto
       IN  /\ inFmt' = IF auto THEN detectFormat(inputStr) ELSE opts.inputformat
           /\ steps' = IF auto THEN Append(steps, "detect") ELSE steps
    /\ IF inFmt' = S_unknown
       THEN result' = Rejected("detection") /\ pc' = "done"
       ELSE pc' = "shortcut" /\ UNCHANGED result
    /\ UNCHANGED <<raw, inputStr, opts, data, val, text, dec, jsyaml, scripts, calls>>

\* a shortcut that does not swallow what JSON.parse throws
ConvertShortcutStrict ==
    /\ pc = "shortcut"
    /\ IF inFmt = opts.outputformat /\ ~needsChanges(opts)
       THEN /\ result' =
                 IF inFmt = S_json /\ opts.align
                 THEN IF JSONparse(inputStr).ok
                      THEN Resolved(JSONstringifyPretty(JSONparse(inputStr).v))
                      ELSE Rejected("decode")
                 ELSE Resolved(inputStr)
            /\ pc' = "done"
       ELSE pc' = "decode" /\ UNCHANGED result
    /\ UNCHANGED <<raw, inputStr, opts, inFmt, data, steps, val, text, dec, jsyaml,
                   scripts, calls>>

\* if (inFmt === outFmt && !needsChanges) { ... return }
ConvertShortcut ==
    /\ pc = "shortcut"
    /\ IF inFmt = opts.outputformat /\ ~needsChanges(opts)
       THEN /\ result' = Resolved(
                 IF inFmt = S_json /\ opts.align /\ JSONparse(inputStr).ok
                 THEN JSONstringifyPretty(JSONparse(inputStr).v)
                 ELSE inputStr)
            /\ pc' = "done"
       ELSE pc' = "decode" /\ UNCHANGED result
    /\ UNCHANGED <<raw, inputStr, opts, inFmt, data, steps, val, text, dec, jsyaml,
                   scripts, calls>>

\* the call goes on with what the decoder gave: `data = ...`, or the throw
\* rejects it
Decoded(out) ==
    IF out.t = "value"
    THEN data' = out.v /\ dec' = out.v /\ pc' = "case" /\ UNCHANGED result
    ELSE IF out.t = "throw"
    THEN result' = Rejected("decode") /\ pc' = "done" /\ UNCHANGED <<data, dec>>
    ELSE pc' = "hung" /\ UNCHANGED <<data, dec, result>>

\* the call ends with what the encoder gave
Encoded(out) ==
    /\ result' = IF out.t = "value" THEN Resolved(out.v) ELSE Rejected("encode")
    /\ pc' = "done"

\* switch (inFmt) { ... }: the decoder runs; yamlToJSON first awaits lazyLoad,
\* which appends a script element when global.jsyaml is not there yet
ConvertDecode ==
    /\ pc = "decode"
    /\ steps' = Append(steps, "decode")
    /\ IF inFmt = S_yaml /\ ~jsyaml
       THEN /\ scripts' = Append(scripts, "loading")
            /\ pc' = "awaitDecode"
            /\ UNCHANGED <<data, dec, result>>
       ELSE /\ \E out \in DecodeOutcomes(inFmt, inputStr) : Decoded(out)
            /\ UNCHANGED scripts
    /\ UNCHANGED <<raw, inputStr, opts, inFmt, val, text, jsyaml, calls>>

\* if (opts.case && opts.case !== "none") data = transformKeys(data, fn)
ConvertCase ==
    /\ pc = "case"
    /\ IF opts.case # S_none
       THEN data' = transformKeys(data, opts.case) /\ steps' = Append(steps, "case")
       ELSE UNCHANGED <<data, steps>>
    /\ pc' = "replace"
    /\ UNCHANGED <<raw, inputStr, opts, inFmt, result, val, text, dec, jsyaml,
                   scripts, calls>>

\* a replacement pass that matches its sources against the keys as decoded,
\* the case pass coming after it
ConvertReplaceOnRawKeys ==
    /\ pc = "replace"
    /\ data' = transformKeys(applyReplacements(dec, opts), opts.case)
    /\ steps' = Append(steps, "replace")
    /\ pc' = "encode"
    /\ UNCHANGED <<raw, inputStr, opts, inFmt, result, val, text, dec, jsyaml,
                   scripts, calls>>

\* data = applyReplacements(data, opts)
ConvertReplace ==
    /\ pc = "replace"
    /\ data' = applyReplacements(data, opts)
    /\ steps' = Append(steps, "replace")
    /\ pc' = "encode"
    /\ UNCHANGED <<raw, inputStr, opts, inFmt, result, val, text, dec, jsyaml,
                   scripts, calls>>

\* switch (outFmt) { ... } return { result, meta }
ConvertEncode ==
    /\ pc = "encode"
    /\ steps' = Append(steps, "encode")
    /\ IF opts.outputformat = S_yaml /\ ~jsyaml
       THEN /\ scripts' = Append(scripts, "loading")
            /\ pc' = "awaitEncode"
            /\ UNCHANGED result
       ELSE /\ \E out \in EncodeOutcomes(opts.outputformat, data, opts.align) : Encoded(out)
            /\ UNCHANGED scripts
    /\ UNCHANGED <<raw, inputStr, opts, inFmt, data, val, text, dec, jsyaml, calls>>

\* s.onload = () => resolve(global[globalSym]): the script has run and defined
\* jsyaml; the awaiting yamlToJSON / jsonToYAML goes on
ConvertScriptOnload ==
    /\ pc \in {"awaitDecode", "awaitEncode"}
    /\ \E k \in DOMAIN scripts :
          /\ scripts[k] = "loading"
          /\ scripts' = [scripts EXCEPT ![k] = "loaded"]
    /\ jsyaml' = TRUE
    /\ IF pc = "awaitDecode"
       THEN \E out \in YamlLoadOutcomes : Decoded(out)
       ELSE /\ \E out \in EncodeOutcomes(S_yaml, data, opts.align) : Encoded(out)
            /\ UNCHANGED <<data, dec>>
    /\ UNCHANGED <<raw, inputStr, opts, inFmt, steps, val, text, calls>>

\* s.onerror = reject
ConvertScriptOnerror ==
    /\ pc \in {"awaitDecode", "awaitEncode"}
    /\ \E k \in DOMAIN scripts :
          /\ scripts[k] = "loading"
          /\ scripts' = [scripts EXCEPT ![k] = "failed"]
    /\ result' = Rejected("load")
    /\ pc' = "done"
    /\ UNCHANGED <<raw, inputStr, opts, inFmt, data, steps, val, text, dec, jsyaml,
                   calls>>

NextConvert ==
    \/ ConvertParseSettings
    \/ ConvertResolveFormat
    \/ ConvertShortcut
    \/ ConvertDecode
    \/ ConvertCase
    \/ ConvertReplace
    \/ ConvertEncode
    \/ ConvertScriptOnload
    \/ ConvertScriptOnerror

SpecConvert == InitConvert /\ [][NextConvert]_vars

Ran(step) == \E j \in DOMAIN steps : steps[j] = step
IsNotDetect(step) == step # "detect"
PassesRun == SelectSeq(steps, IsNotDetect)
IsPrefix(a, b) == Len(a) <= Len(b) /\ SubSeq(b, 1, Len(a)) = a

\* C4: with inputformat auto and a text the detector calls unknown, the call is
\* rejected with the detection error, having run no decode, case, replacement
\* or encode pass and produced no result; with a declared inputformat the
\* detector is not consulted and the declared format is the one used.
DetectionGate ==
    (pc \notin {"settings", "resolve"} /\ opts.st = "ok") =>
        /\ (opts.inputformat = S_auto /\ detectFormat(inputStr) = S_unknown) =>
               /\ pc = "done"
               /\ result.st = "rejected" /\ result.why = "detection"
               /\ steps = <<"detect">>
        /\ opts.inputformat # S_auto =>
               /\ ~Ran("detect")
               /\ inFmt = opts.inputformat

\* C4: a white-space text under inputformat auto has been rejected.
BlankInputRejected ==
    /\ pc = "done"
    /\ opts.st = "ok" /\ opts.inputformat = S_auto
    /\ inputStr # << >> /\ trim(inputStr) = << >>
    /\ result.st = "rejected" /\ result.why = "detection"

\* the input text is not a document of the resolved format (for YAML the
\* provider decides, by throwing)
InputMalformed ==
    \/ inFmt = S_json /\ ~JSONparse(inputStr).ok
    \/ inFmt = S_xml /\ ~WellFormedXml(inputStr)
    \/ inFmt = S_csv /\ ~csvToJSON(inputStr).ok
    \/ inFmt = S_emmet /\ emmetToJSON(trim(inputStr)).st # "ok"

\* C5: when the input does not decode under the resolved format, the call is
\* rejected: no case pass, no replacement pass, no encoder, no result text.
DecodeFailureRejects ==
    (pc = "done" /\ Ran("decode") /\ InputMalformed) =>
        /\ result.st = "rejected"
        /\ ~Ran("case") /\ ~Ran("replace") /\ ~Ran("encode")

\* the key a decoded top-level key ends up as: the case pass first, then the tag
\* replacement looked up under the key the case pass made
KeyAfterPasses(k) ==
    LET cased == CaseFn(opts.case, k)
    IN  IF HasKey(opts.replace.tag, cased) /\ Get(opts.replace.tag, cased).v # << >>
        THEN Get(opts.replace.tag, cased).v
        ELSE cased

\* C6: off the shortcut the passes run in the order decode, case (only with a
\* case mode other than none), replacement (always), encode; and the tag
\* replacement sees each key as the case pass left it.
PassOrder ==
    (pc \notin {"settings", "resolve", "shortcut"} /\ opts.st = "ok") =>
        /\ IsPrefix(PassesRun,
                    IF opts.case # S_none
                    THEN <<"decode", "case", "replace", "encode">>
                    ELSE <<"decode", "replace", "encode">>)
        /\ (pc = "done" /\ result.st = "resolved" /\ Ran("decode")) => Ran("encode")
        /\ (Ran("replace") /\ isObject(dec)) =>
               \A j \in DOMAIN dec.v : HasKey(data, KeyAfterPasses(dec.v[j][1]))

\* C6: a call with case=camel and a tag replacement whose source is the
\* camel-cased key has run all four passes and renamed the key.
CasedKeyReplaced ==
    /\ pc = "done" /\ result.st = "resolved"
    /\ opts.case = S_camel
    /\ PassesRun = <<"decode", "case", "replace", "encode">>
    /\ isObject(dec) /\ HasKey(dec, <<"a", "_", "b">>)
    /\ HasKey(opts.replace.tag, <<"a", "B">>)
    /\ isObject(data) /\ HasKey(data, <<"k">>) /\ ~HasKey(data, <<"a", "B">>)

\* C7: when the resolved input format is the output format and neither a case
\* mode nor a replacement is asked for, the call decodes nothing and resolves
\* with the input text as given; only json with align on resolves with the
\* two-space rendering of the parsed input, and with the text as given when
\* the input does not parse.
ShortcutIdentity ==
    (/\ pc = "done" /\ opts.st = "ok"
     /\ inFmt = opts.outputformat
     /\ opts.case = S_none
     /\ opts.replace.tag = EmptyObj /\ opts.replace.val = EmptyObj) =>
        /\ steps \in {<< >>, <<"detect">>}
        /\ result.st = "resolved"
        /\ result.v = IF inFmt = S_json /\ opts.align /\ JSONparse(inputStr).ok
                      THEN JSONstringifyPretty(JSONparse(inputStr).v)
                      ELSE inputStr

\* C7: compact JSON has come back re-indented from a json to json call.
JsonReindented ==
    /\ pc = "done" /\ opts.st = "ok"
    /\ inFmt = S_json /\ opts.outputformat = S_json /\ opts.align
    /\ inputStr = <<"{","\"","a","_","b","\"",":","1","}">>
    /\ steps = <<"detect">>
    /\ result.st = "resolved"
    /\ result.v = <<"{","\n"," "," ","\"","a","_","b","\"",":"," ","1","\n","}">>

(***************************************************************************)
(* THE YAML PROVIDER LOAD AS A STATE MACHINE                               *)
(* NumCalls calls of yamlToJSON / jsonToYAML, each awaiting lazyLoad, and  *)
(* the script elements lazyLoad has appended to the document.              *)
(***************************************************************************)
NumCalls == 3
Callers == 1..NumCalls

InitLoad ==
    /\ calls \in [Callers -> {[fn |-> f, at |-> "start", script |-> 0] :
                               f \in {"yamlToJSON", "jsonToYAML"}}]
    /\ scripts = << >>
    /\ jsyaml = FALSE
    /\ pc = Unused /\ raw = Unused /\ inputStr = Unused /\ opts = Unused
    /\ inFmt = Unused /\ data = Unused /\ result = Unused /\ steps = Unused
    /\ val = Unused /\ text = Unused /\ dec = Unused

\* a lazyLoad that does not look at global.jsyaml and always appends a script
LazyLoadCallAlwaysLoads(c) ==
    /\ calls[c].at = "start"
    /\ scripts' = Append(scripts, "loading")
    /\ calls' = [calls EXCEPT ![c].at = "awaiting", ![c].script = Len(scripts) + 1]
    /\ UNCHANGED <<raw, inputStr, pc, opts, inFmt, data, result, steps, val, text,
                   dec, jsyaml>>

\* lazyLoad(url, "jsyaml") as called by call c: resolve at once when
\* global.jsyaml is there, else create a script element, set its handlers and
\* append it
LazyLoadCall(c) ==
    /\ calls[c].at = "start"
    /\ IF jsyaml
       THEN /\ calls' = [calls EXCEPT ![c].at = "resolved"]
            /\ UNCHANGED scripts
       ELSE /\ scripts' = Append(scripts, "loading")
            /\ calls' = [calls EXCEPT ![c].at = "awaiting", ![c].script = Len(scripts) + 1]
    /\ UNCHANGED <<raw, inputStr, pc, opts, inFmt, data, result, steps, val, text,
                   dec, jsyaml>>

\* the calls whose promise script k settles
Settle(k, outcome) ==
    [c \in Callers |->
        IF calls[c].at = "awaiting" /\ calls[c].script = k
        THEN [calls[c] EXCEPT !.at = outcome]
        ELSE calls[c]]

\* script k has run (it defines global.jsyaml); s.onload resolves
ScriptOnload(k) ==
    /\ scripts[k] = "loading"
    /\ scripts' = [scripts EXCEPT ![k] = "loaded"]
    /\ jsyaml' = TRUE
    /\ calls' = Settle(k, "resolved")
    /\ UNCHANGED <<raw, inputStr, pc, opts, inFmt, data, result, steps, val, text, dec>>

\* script k could not be fetched; s.onerror rejects
ScriptOnerror(k) ==
    /\ scripts[k] = "loading"
    /\ scripts' = [scripts EXCEPT ![k] = "failed"]
    /\ calls' = Settle(k, "rejected")
    /\ UNCHANGED <<raw, inputStr, pc, opts, inFmt, data, result, steps, val, text,
                   dec, jsyaml>>

NextLoad ==
    \/ \E c \in Callers : LazyLoadCall(c)
    \/ \E k \in DOMAIN scripts : ScriptOnload(k)
    \/ \E k \in DOMAIN scripts : ScriptOnerror(k)

SpecLoad == InitLoad /\ [][NextLoad]_vars

\* C2: while the provider is not loaded, the calls that need it share one script
\* load: never are two loads pending at once.
SingleFlight ==
    Cardinality({k \in DOMAIN scripts : scripts[k] = "loading"}) <= 1

(***************************************************************************)
(* SIBLINGS JOINED BY +                                                    *)
(* emmetToJSON is handed a list of sibling terms joined by `+`, written at *)
(* the root, inside a group, or as the group following a chain; mergeJSON  *)
(* is handed two mappings.                                                 *)
(***************************************************************************)
\* most sibling terms in one list
MaxSiblings == 3

SiblingKeys == {<<"a">>, <<"b">>}
\* what follows the key of a sibling term: nothing, or a leaf text
SiblingTails == {<< >>, <<"{", "x", "}">>, <<"{", "1", "}">>}
SiblingTerms == {<<k, t>> : k \in SiblingKeys, t \in SiblingTails}
SiblingLists == UNION {[1..n -> SiblingTerms] : n \in 2..MaxSiblings}
SiblingPlaces == {"root", "group", "chain"}
SiblingCases == {[place |-> p, terms |-> ts] : p \in SiblingPlaces, ts \in SiblingLists}

SiblingsText(c) ==
    LET body == join([j \in DOMAIN c.terms |-> c.terms[j][1] \o c.terms[j][2]], <<"+">>)
    IN  CASE c.place = "root" -> body
          [] c.place = "group" -> <<"(">> \o body \o <<")">>
          [] c.place = "chain" -> <<"p", ">", "(">> \o body \o <<")">>

MergeValues == {Num(1), Str(<<"x">>), EmptyObj, Arr(<<Num(1), Str(<<"x">>)>>)}
MergeOperands ==
    {EmptyObj}
    \cup {Obj(<<<<k, x>>>>) : k \in SiblingKeys, x \in MergeValues}
    \cup UNION {{Obj(<<<<k, x>>, <<l, y>>>>) :
                    l \in SiblingKeys \ {k}, x \in MergeValues, y \in MergeValues}
                 : k \in SiblingKeys}

InitSiblings ==
    /\ \/ /\ pc = "decode"
          /\ val \in SiblingCases
          /\ text = SiblingsText(val)
       \/ /\ pc = "merge"
          /\ val \in MergeOperands \X MergeOperands
          /\ text = << >>
    /\ dec = Unused
    /\ raw = Unused /\ inputStr = Unused /\ opts = Unused /\ inFmt = Unused
    /\ data = Unused /\ result = Unused /\ steps = Unused
    /\ jsyaml = Unused /\ scripts = Unused /\ calls = Unused

\* DataTransformer.__testonly.mergeJSON(a, b)
MergeJsonCall ==
    /\ pc = "merge"
    /\ dec' = mergeJSON(val[1], val[2])
    /\ pc' = "merged"
    /\ UNCHANGED <<raw, inputStr, opts, inFmt, data, result, steps, val, text,
                   jsyaml, scripts, calls>>

NextSiblings == EmmetToJsonCall \/ MergeJsonCall

SpecSiblings == InitSiblings /\ [][NextSiblings]_vars

\* the value a sibling term carries: an empty mapping, or its leaf text coerced
SiblingValue(term) == IF term[2] = << >> THEN EmptyObj ELSE coerce(<<term[2][2]>>)

\* the values of the terms with key k, in input order
RECURSIVE ValuesOfKey(_, _)
ValuesOfKey(terms, k) ==
    IF terms = << >> THEN << >>
    ELSE (IF terms[1][1] = k THEN <<SiblingValue(terms[1])>> ELSE << >>)
         \o ValuesOfKey(Tail(terms), k)

\* the keys of the terms, each once, in order of first appearance
RECURSIVE KeysInOrder(_, _)
KeysInOrder(terms, seen) ==
    IF terms = << >> THEN << >>
    ELSE IF terms[1][1] \in seen THEN KeysInOrder(Tail(terms), seen)
    ELSE <<terms[1][1]>> \o KeysInOrder(Tail(terms), seen \cup {terms[1][1]})

\* every key once; a key carried by several siblings is bound to the sequence
\* of their values in input order
SiblingsExpected(c) ==
    LET ks == KeysInOrder(c.terms, {})
        bound(k) == LET vs == ValuesOfKey(c.terms, k)
                    IN  IF Len(vs) = 1 THEN vs[1] ELSE Arr(vs)
        merged == Obj([j \in DOMAIN ks |-> <<ks[j], bound(ks[j])>>])
    IN  IF c.place = "chain" THEN Obj(<<<<<<"p">>, merged>>>>) ELSE merged

\* the same rule for two mappings: a key of both is bound to a sequence of a's
\* value (a's elements when that value is a sequence already) then b's value
MergeExpected(a, b) ==
    LET both(k) == LET x == Get(a, k)
                   IN  Arr((IF x.t = "arr" THEN x.v ELSE <<x>>) \o <<Get(b, k)>>)
        fromA == [j \in DOMAIN a.v |->
                    <<a.v[j][1], IF HasKey(b, a.v[j][1]) THEN both(a.v[j][1]) ELSE a.v[j][2]>>]
        fromB == SelectSeq(b.v, LAMBDA e : ~HasKey(a, e[1]))
    IN  Obj(fromA \o fromB)

\* C11: siblings joined by + that carry the same key decode to a mapping that
\* holds the key once, bound to the sequence of every sibling's value in input
\* order, wherever the sibling list is written; mergeJSON follows the same rule.
SiblingsMerged ==
    /\ pc = "done" => dec.st = "ok" /\ dec.v = SiblingsExpected(val)
    /\ pc = "merged" => dec = MergeExpected(val[1], val[2])

\* C11, mergeJSON alone
MergeRule == pc = "merged" => dec = MergeExpected(val[1], val[2])

\* C11, sibling lists whose first term carries a leaf text
SiblingsMergedAfterLeaf ==
    pc = "done" /\ val.terms[1][2] # << >> /\ (val.place = "root" => val.terms[Len(val.terms)][2] # << >>)
        => dec.st = "ok" /\ dec.v = SiblingsExpected(val)

(***************************************************************************)
(* REPETITION  ident*N                                                     *)
(* emmetToJSON is handed one repeated term, at the root or as the child of *)
(* a chain, with or without a leaf text or a child of its own.             *)
(***************************************************************************)
\* largest count written after `*`
MaxCount == 4

\* what follows the count: nothing, a leaf text, or a child
RepeatTails == {<< >>, <<"{", "x", "}">>, <<"{", "7", "}">>, <<">", "b", "{", "x", "}">>}
RepeatPlaces == {"root", "child"}
\* the count as written: plain, or with a leading zero
RepeatCases ==
    {[key |-> k, count |-> n, digits |-> d, tail |-> t, place |-> p] :
        k \in SiblingKeys, n \in 0..MaxCount, d \in {"plain", "padded"},
        t \in RepeatTails, p \in RepeatPlaces}

RepeatText(c) ==
    LET term == c.key \o <<"*">>
                \o (IF c.digits = "padded" THEN <<"0">> ELSE << >>) \o NatStr(c.count)
                \o c.tail
    IN  IF c.place = "child" THEN <<"u", ">">> \o term ELSE term

InitRepeat ==
    /\ pc = "decode"
    /\ val \in RepeatCases
    /\ text = RepeatText(val)
    /\ dec = Unused
    /\ raw = Unused /\ inputStr = Unused /\ opts = Unused /\ inFmt = Unused
    /\ data = Unused /\ result = Unused /\ steps = Unused
    /\ jsyaml = Unused /\ scripts = Unused /\ calls = Unused

NextRepeat == EmmetToJsonCall

SpecRepeat == InitRepeat /\ [][NextRepeat]_vars

\* the value of the repeated term
RepeatValue(c) ==
    IF c.tail = << >> THEN EmptyObj
    ELSE IF c.tail[1] = "{" THEN Str(<<c.tail[2]>>)
    ELSE Obj(<<<<<<"b">>, Str(<<"x">>)>>>>)

\* the key bound to a sequence of `count` copies of the term's value
RepeatExpected(c) ==
    LET copies == Obj(<<<<c.key, Arr([j \in 1..c.count |-> RepeatValue(c)])>>>>)
    IN  IF c.place = "child" THEN Obj(<<<<<<"u">>, copies>>>>) ELSE copies

\* C12: a term ident*N decodes to the key bound to a sequence of exactly N
\* copies of the term's value, for every count N written in the input.
RepeatCopies ==
    pc = "done" => dec.st = "ok" /\ Coerced(dec.v) = Coerced(RepeatExpected(val))

\* C12, as the code has it: from a count of two on, the key is bound to a
\* sequence of exactly N copies of the term's value; a count of 0 or 1 leaves
\* the key bound to the term's value itself.
RepeatRule ==
    pc = "done" =>
        /\ dec.st = "ok"
        /\ Coerced(dec.v) =
             Coerced(IF val.count >= 2 THEN RepeatExpected(val)
                     ELSE IF val.place = "child"
                          THEN Obj(<<<<<<"u">>, Obj(<<<<val.key, RepeatValue(val)>>>>)>>>>)
                          ELSE Obj(<<<<val.key, RepeatValue(val)>>>>))

\* a child written li*3 with a leaf text has been decoded
RepeatedThrice ==
    /\ pc = "done" /\ val.count = 3 /\ val.place = "child" /\ val.tail # << >>
    /\ dec.st = "ok"

(***************************************************************************)
(* TRAILING INPUT                                                          *)
(* emmetToJSON is handed every text of up to MaxEmmetLen characters over   *)
(* the characters of the grammar and a blank.                              *)
(***************************************************************************)
\* longest Emmet text
MaxEmmetLen == 4

EmmetChars == {"a", "+", ">", "(", ")", "{", "}", "*", "2", " "}
EmmetTexts == UNION {[1..n -> EmmetChars] : n \in 0..MaxEmmetLen}

InitTrailing ==
    /\ pc = "decode"
    /\ text \in EmmetTexts
    /\ val = Unused
    /\ dec = Unused
    /\ raw = Unused /\ inputStr = Unused /\ opts = Unused /\ inFmt = Unused
    /\ data = Unused /\ result = Unused /\ steps = Unused
    /\ jsyaml = Unused /\ scripts = Unused /\ calls = Unused

NextTrailing == EmmetToJsonCall

SpecTrailing == InitTrailing /\ [][NextTrailing]_vars

\* the top-level parse returned with characters of the input left over
StopsBeforeEnd(str) ==
    LET top == parseNode(str, 0) IN top.st = "ok" /\ top.i < Len(str)

\* C13: whenever the top-level parse stops before the end of the input,
\* emmetToJSON throws the trailing-input error and returns no tree.
TrailingInputRejected ==
    pc = "done" /\ StopsBeforeEnd(text)
        => dec.st = "throw" /\ dec.v = "Unexpected trailing input"

\* a repeated term followed by an unmatched `)` has been rejected
UnmatchedParenRejected ==
    pc = "done" /\ text = <<"a", "*", "2", ")">> /\ dec.st = "throw"

(***************************************************************************)
(* JSON -> CSV -> JSON                                                     *)
(* One record, flat or nested, is handed to jsonToCSV and the text it      *)
(* returns to csvToJSON.                                                   *)
(***************************************************************************)
\* most keys of a record, over all its levels
MaxCsvKeys == 3

RecordKeys == {<<"a">>, <<"b">>}
CsvLeaves == {Num(30), Str(<<"x">>), Str(<<"x", ",", "y">>), Str(<<"7">>), Str(<< >>)}

\* the entry lists with exactly n keys over all levels, keys distinct per level
RECURSIVE EntriesOver(_, _, _)
EntriesOver(keys, leaves, n) ==
    IF n = 0 THEN {<< >>}
    ELSE UNION {
           UNION {
             { <<<<k, x>>>> \o rest :
                 x \in (IF i = 0 THEN leaves ELSE {})
                       \cup {Obj(e) : e \in EntriesOver(keys, leaves, i)},
                 rest \in {r \in EntriesOver(keys, leaves, n - 1 - i) :
                             \A j \in DOMAIN r : r[j][1] # k} }
             : i \in 0..(n - 1) }
           : k \in keys }

CsvRecords == {Obj(e) : e \in UNION {EntriesOver(RecordKeys, CsvLeaves, n) : n \in 1..MaxCsvKeys}}

InitCsv ==
    /\ val \in CsvRecords
    /\ pc = "encode"
    /\ text = Unused
    /\ dec = Unused
    /\ raw = Unused /\ inputStr = Unused /\ opts = Unused /\ inFmt = Unused
    /\ data = Unused /\ result = Unused /\ steps = Unused
    /\ jsyaml = Unused /\ scripts = Unused /\ calls = Unused

\* DataTransformer.jsonToCSV(val)
JsonToCsvCall ==
    /\ pc = "encode"
    /\ text' = jsonToCSV(val)
    /\ pc' = IF text'.ok THEN "decode" ELSE "done"
    /\ dec' = IF text'.ok THEN dec ELSE [ok |-> FALSE, v |-> Arr(<< >>)]
    /\ UNCHANGED <<raw, inputStr, opts, inFmt, data, result, steps, val,
                   jsyaml, scripts, calls>>

\* DataTransformer.csvToJSON(text)
CsvToJsonCall ==
    /\ pc = "decode"
    /\ dec' = csvToJSON(text.v)
    /\ pc' = "done"
    /\ UNCHANGED <<raw, inputStr, opts, inFmt, data, result, steps, val, text,
                   jsyaml, scripts, calls>>

NextCsv == JsonToCsvCall \/ CsvToJsonCall

SpecCsv == InitCsv /\ [][NextCsv]_vars

\* C14: a single flat-or-nested record handed to jsonToCSV, and the text to
\* csvToJSON, comes back as the original record (a numeric string read back
\* as a number is let pass here).
CsvRoundTrip == pc = "done" => dec.ok /\ Coerced(dec.v) = Coerced(val)

\* the leaves of a tree
RECURSIVE LeavesOf(_)
LeavesOf(x) ==
    IF x.t = "obj" THEN UNION {LeavesOf(x.v[j][2]) : j \in DOMAIN x.v} \cup
                        (IF x.v = << >> THEN {x} ELSE {})
    ELSE IF x.t = "arr" THEN UNION {LeavesOf(x.v[j]) : j \in DOMAIN x.v} \cup
                             (IF x.v = << >> THEN {x} ELSE {})
    ELSE {x}

\* C14, records whose leaves are numbers and plain words
CsvRoundTripPlain ==
    pc = "done" /\ LeavesOf(val) \subseteq {Num(30), Str(<<"x">>)}
        => dec.ok /\ dec.v = val

(***************************************************************************)
(* JSON -> XML -> JSON                                                     *)
(* A tree is handed to jsonToXML and the markup it returns to xmlToJSON.   *)
(***************************************************************************)
\* most keys of a tree handed to jsonToXML, over all its levels
MaxXmlKeys == 3

XmlLeaves == {Num(30), Str(<<"x">>), Str(<<"7">>), Str(<<"<">>), Str(<< >>),
              Arr(<<Num(1), Str(<<"x">>)>>), Arr(<<Str(<<"x">>)>>)}
XmlTrees == {Obj(e) : e \in UNION {EntriesOver(RecordKeys, XmlLeaves, n) : n \in 1..MaxXmlKeys}}

InitXml ==
    /\ val \in XmlTrees
    /\ pc = "encode"
    /\ text = Unused
    /\ dec = Unused
    /\ raw = Unused /\ inputStr = Unused /\ opts = Unused /\ inFmt = Unused
    /\ data = Unused /\ result = Unused /\ steps = Unused
    /\ jsyaml = Unused /\ scripts = Unused /\ calls = Unused

\* DataTransformer.jsonToXML(val)
JsonToXmlCall ==
    /\ pc = "encode"
    /\ text' = jsonToXML(val)
    /\ pc' = "decode"
    /\ UNCHANGED <<raw, inputStr, opts, inFmt, data, result, steps, val, dec,
                   jsyaml, scripts, calls>>

\* DataTransformer.xmlToJSON(text)
XmlToJsonCall ==
    /\ pc = "decode"
    /\ \E rootEl \in parseFromString(text) : dec' = xmlToJSON(rootEl)
    /\ pc' = "done"
    /\ UNCHANGED <<raw, inputStr, opts, inFmt, data, result, steps, val, text,
                   jsyaml, scripts, calls>>

NextXml == JsonToXmlCall \/ XmlToJsonCall

SpecXml == InitXml /\ [][NextXml]_vars

\* C15: a tree handed to jsonToXML, and the markup to xmlToJSON, comes back as
\* the original tree once the root wrapper is stripped and every leaf numeric
\* string is read as a number.
XmlRoundTrip ==
    pc = "done" =>
        /\ Keys(dec) = <<S_root>>
        /\ Coerced(Get(dec, S_root)) = Coerced(val)

\* the lengths of the sequences in a tree
RECURSIVE SequenceLengths(_)
SequenceLengths(x) ==
    IF x.t = "obj" THEN UNION {SequenceLengths(x.v[j][2]) : j \in DOMAIN x.v}
    ELSE IF x.t = "arr" THEN {Len(x.v)} \cup UNION {SequenceLengths(x.v[j]) : j \in DOMAIN x.v}
    ELSE {}

\* C15, trees whose leaves are numbers and plain words and whose sequences
\* have two elements or more
XmlRoundTripPlain ==
    (/\ pc = "done"
     /\ LeavesOf(val) \subseteq {Num(30), Num(1), Str(<<"x">>), Str(<<"7">>)}
     /\ \A n \in SequenceLengths(val) : n >= 2)
        => (/\ Keys(dec) = <<S_root>>
            /\ Coerced(Get(dec, S_root)) = Coerced(val))

(***************************************************************************)
(* THE KEY-CASE PASS AND THE REPLACEMENT PASS                              *)
(* A tree is handed to transformKeys, and the tree that returns to         *)
(* transformKeys again with the same mode; or a tree is handed to          *)
(* applyReplacements with a pair of replacement maps.                      *)
(***************************************************************************)
\* most keys of a tree handed to a pass, over all its levels
MaxPassKeys == 2

PassKeys == {<<"a", "_", "b">>, <<"a", "B">>, <<"a", "_", "_", "b">>, <<"a", "b">>, S_proto}
PassLeaves == {Num(10), Str(<<"1", "0">>), Str(<<"x">>),
               Arr(<<Obj(<<<<<<"a", "_", "b">>, Str(<<"x">>)>>>>)>>)}
PassTrees == {Obj(e) : e \in UNION {EntriesOver(PassKeys, PassLeaves, n) : n \in 1..MaxPassKeys}}

CaseModes == {S_none, S_upper, S_camel, S_snake}
TagMaps == {EmptyObj,
            Obj(<<<<<<"a", "_", "b">>, Str(<<"k">>)>>>>),
            Obj(<<<<<<"a", "_", "b">>, Str(<<"a", "B">>)>>>>),
            Obj(<<<<<<"a", "B">>, Str(<< >>)>>>>),
            Obj(<<<<<<"a", "b">>, Str(<<"k">>)>>, <<<<"a", "_", "_", "b">>, Str(<<"k">>)>>>>)}
ValMaps == {EmptyObj,
            Obj(<<<<<<"1", "0">>, Str(<<"P">>)>>>>),
            Obj(<<<<<<"x">>, Str(<<"1", "0">>)>>>>)}

PassOptions(mode, tagMap, valMap) ==
    [case |-> mode, replace |-> [tag |-> tagMap, val |-> valMap]]

InitPasses ==
    /\ val \in PassTrees
    /\ \/ /\ pc = "case"
          /\ opts \in {PassOptions(m, EmptyObj, EmptyObj) : m \in CaseModes}
       \/ /\ pc = "replace"
          /\ opts \in {PassOptions(S_none, tm, vm) : tm \in TagMaps, vm \in ValMaps}
    /\ data = Unused
    /\ dec = Unused
    /\ text = Unused
    /\ raw = Unused /\ inputStr = Unused /\ inFmt = Unused
    /\ result = Unused /\ steps = Unused
    /\ jsyaml = Unused /\ scripts = Unused /\ calls = Unused

\* transformKeys(val, CASE_FNS[mode])
TransformKeysCall ==
    /\ pc = "case"
    /\ data' = transformKeys(val, opts.case)
    /\ pc' = "again"
    /\ UNCHANGED <<raw, inputStr, opts, inFmt, result, steps, val, text, dec,
                   jsyaml, scripts, calls>>

\* transformKeys on what the first call returned, same mode
TransformKeysAgain ==
    /\ pc = "again"
    /\ dec' = transformKeys(data, opts.case)
    /\ pc' = "done"
    /\ UNCHANGED <<raw, inputStr, opts, inFmt, data, result, steps, val, text,
                   jsyaml, scripts, calls>>

\* applyReplacements(val, opts)
ApplyReplacementsCall ==
    /\ pc = "replace"
    /\ data' = applyReplacements(val, opts)
    /\ pc' = "replaced"
    /\ UNCHANGED <<raw, inputStr, opts, inFmt, result, steps, val, text, dec,
                   jsyaml, scripts, calls>>

NextPasses == TransformKeysCall \/ TransformKeysAgain \/ ApplyReplacementsCall

SpecPasses == InitPasses /\ [][NextPasses]_vars

\* C16: for each case mode and every tree, the key-case pass applied twice
\* gives the tree it gives applied once.
CaseIdempotent == pc = "done" => dec = data

\* C16, the modes none, upper and snake
CaseIdempotentButCamel == pc = "done" /\ opts.case # S_camel => dec = data

\* exact-match replacement: a key that is a source of tagMap takes its
\* replacement text, a scalar whose string form is a source of valMap takes its
\* replacement text, and nothing else changes
RECURSIVE ExactReplacement(_, _, _)
ExactReplacement(node, tagMap, valMap) ==
    IF node.t = "arr"
    THEN Arr([j \in DOMAIN node.v |-> ExactReplacement(node.v[j], tagMap, valMap)])
    ELSE IF node.t = "obj"
    THEN Obj([j \in DOMAIN node.v |->
             <<IF HasKey(tagMap, node.v[j][1]) THEN Get(tagMap, node.v[j][1]).v
               ELSE node.v[j][1],
               ExactReplacement(node.v[j][2], tagMap, valMap)>>])
    ELSE IF HasKey(valMap, StringOf(node)) THEN Get(valMap, StringOf(node))
    ELSE node

\* no mapping of the tree has two keys that exact-match replacement makes equal
RECURSIVE KeysStayDistinct(_, _)
KeysStayDistinct(node, tagMap) ==
    IF node.t = "arr" THEN \A j \in DOMAIN node.v : KeysStayDistinct(node.v[j], tagMap)
    ELSE IF node.t = "obj"
    THEN /\ \A i, j \in DOMAIN node.v :
               i # j => Keys(ExactReplacement(node, tagMap, EmptyObj))[i]
                        # Keys(ExactReplacement(node, tagMap, EmptyObj))[j]
         /\ \A j \in DOMAIN node.v : KeysStayDistinct(node.v[j][2], tagMap)
    ELSE TRUE

\* C17: replacement is exact-match only: a key is renamed iff it equals a
\* tagReplacements source, a scalar is replaced iff its string form equals a
\* valueReplacements source, always by the replacement text; every other key
\* and scalar, and the shape of the tree, are unchanged.
ReplacementExact ==
    pc = "replaced" /\ KeysStayDistinct(val, opts.replace.tag)
        => data = ExactReplacement(val, opts.replace.tag, opts.replace.val)

\* the keys of a tree, at every level
RECURSIVE AllKeys(_)
AllKeys(x) ==
    IF x.t = "obj" THEN Range(Keys(x)) \cup UNION {AllKeys(x.v[j][2]) : j \in DOMAIN x.v}
    ELSE IF x.t = "arr" THEN UNION {AllKeys(x.v[j]) : j \in DOMAIN x.v}
    ELSE {}

\* C17, trees without the key __proto__ and maps without an empty replacement
ReplacementExactOwnKeys ==
    (/\ pc = "replaced" /\ KeysStayDistinct(val, opts.replace.tag)
     /\ S_proto \notin AllKeys(val)
     /\ \A j \in DOMAIN opts.replace.tag.v : opts.replace.tag.v[j][2].v # << >>)
        => data = ExactReplacement(val, opts.replace.tag, opts.replace.val)

\* the key a pass gives the j-th key of a mapping
PassKey(o, k) ==
    IF pc = "again" THEN CaseFn(o.case, k) ELSE TagFor(o.replace.tag, k)

\* the tree a pass makes of a value
PassValue(o, x) ==
    IF pc = "again" THEN transformKeys(x, o.case) ELSE applyReplacements(x, o)

\* C18: whenever the key-case pass or the tag-replacement pass maps two
\* distinct keys of a mapping to the same key, the mapping keeps that key once,
\* bound to a sequence that holds both values: no value is dropped.
CollisionsMerged ==
    pc \in {"again", "replaced"} =>
        \A i, j \in DOMAIN val.v :
            (i < j /\ PassKey(opts, val.v[i][1]) = PassKey(opts, val.v[j][1]))
                => LET kept == Get(data, PassKey(opts, val.v[i][1]))
                   IN  /\ kept.t = "arr"
                       /\ \E m, n \in DOMAIN kept.v :
                              /\ m < n
                              /\ kept.v[m] = PassValue(opts, val.v[i][2])
                              /\ kept.v[n] = PassValue(opts, val.v[j][2])

(***************************************************************************)
(* SEVERAL convert CALLS                                                   *)
(* NumConverts calls of convert are in flight at once.  A call runs without *)
(* interruption from one await to the next: `await yamlToJSON(...)` and    *)
(* `await jsonToYAML(...)` wait for lazyLoad's promise, `await             *)
(* xmlToJSON(...)` gives way for one turn.  Each call has its own opts,    *)
(* inFmt and data; global.jsyaml and the script elements are shared.       *)
(***************************************************************************)
\* calls in flight
NumConverts == 2

\* <<inputStr, settingsStr>>: YAML in, YAML out, XML with a case mode, Emmet
\* with a text left open, an unknown directive, JSON to JSON
CallArguments ==
    {<<<<"a","_","b",":"," ","1">>,
       <<"i","n","p","u","t","f","o","r","m","a","t","=","y","a","m","l">>>>,
     <<<<"{","\"","a","_","b","\"",":","1","}">>,
       <<"o","u","t","p","u","t","f","o","r","m","a","t","=","y","a","m","l">>>>,
     <<<<"<","c","_","d",">","2","<","/","c","_","d",">">>,
       <<"c","a","s","e","=","c","a","m","e","l">>>>,
     <<<<"a","_","b","{","1">>,
       <<"i","n","p","u","t","f","o","r","m","a","t","=","e","m","m","e","t">>>>,
     <<<<" ">>,
       <<"f","o","o","=","1">>>>,
     <<<<"{","\"","a","_","b","\"",":","1","}">>,
       <<>>>>}

YamlInputs == {a[1] : a \in {b \in CallArguments : includes(b[1], " ") /\ includes(b[1], ":")}}

\* jsYaml.dump is not part of the repository: the text it returns is written
\* here as the marker "yaml:" and the tree it was given
YamlDump(tree) == <<"y", "a", "m", "l", ":">> \o JSONstringify(tree)

CallRecord(a) ==
    [input |-> a[1], settings |-> a[2], pc |-> "start", opts |-> Unused,
     inFmt |-> Unused, data |-> Unused, result |-> Pending, load |-> "none",
     script |-> 0]

\* the decoders and encoders of the repository give one outcome for the
\* arguments above
TheOutcome(outcomes) == CHOOSE out \in outcomes : TRUE

\* switch (outFmt): jsonToYAML first awaits lazyLoad, the other encoders
\* return at once
CallEncode(r, loaded) ==
    IF r.opts.outputformat = S_yaml
    THEN [r EXCEPT !.pc = "awaitEncode", !.load = IF loaded THEN "ready" ELSE "wanted"]
    ELSE LET out == TheOutcome(EncodeOutcomes(r.opts.outputformat, r.data, r.opts.align))
         IN  [r EXCEPT !.pc = "done",
                       !.result = IF out.t = "value" THEN Resolved(out.v)
                                  ELSE Rejected("encode")]

\* the case pass and the replacement pass on the call's own tree, then encode
CallPasses(r, tree, loaded) ==
    CallEncode([r EXCEPT !.data = applyReplacements(
                    IF r.opts.case # S_none THEN transformKeys(tree, r.opts.case) ELSE tree,
                    r.opts)],
               loaded)

\* switch (inFmt): yamlToJSON awaits lazyLoad, xmlToJSON's value is awaited,
\* the other decoders return or throw at once
CallDecode(r, loaded) ==
    IF r.inFmt = S_yaml
    THEN [r EXCEPT !.pc = "awaitDecode", !.load = IF loaded THEN "ready" ELSE "wanted"]
    ELSE LET out == TheOutcome(DecodeOutcomes(r.inFmt, r.input))
         IN  IF out.t # "value" THEN [r EXCEPT !.pc = "done", !.result = Rejected("decode")]
             ELSE IF r.inFmt = S_xml THEN [r EXCEPT !.pc = "afterDecode", !.data = out.v]
             ELSE CallPasses(r, out.v, loaded)

\* convert from its first statement to its first await or its return
CallStart(r, loaded) ==
    LET o == parseSettings(r.settings)
        fmt == IF o.inputformat = S_auto THEN detectFormat(r.input) ELSE o.inputformat
    IN  IF o.st = "throw" THEN [r EXCEPT !.pc = "done", !.result = Rejected("settings")]
        ELSE IF fmt = S_unknown
        THEN [r EXCEPT !.pc = "done", !.opts = o, !.result = Rejected("detection")]
        ELSE IF fmt = o.outputformat /\ ~needsChanges(o)
        THEN [r EXCEPT !.pc = "done", !.opts = o, !.inFmt = fmt,
                       !.result = Resolved(
                           IF fmt = S_json /\ o.align /\ JSONparse(r.input).ok
                           THEN JSONstringifyPretty(JSONparse(r.input).v)
                           ELSE r.input)]
        ELSE CallDecode([r EXCEPT !.opts = o, !.inFmt = fmt], loaded)

\* convert from an await that has settled to the next await or the return;
\* yamlLoad is what jsYaml.load makes of each text
CallContinue(r, tree, loaded, yamlLoad) ==
    IF r.load = "failed" THEN [r EXCEPT !.pc = "done", !.result = Rejected("load")]
    ELSE IF r.pc = "afterDecode" THEN CallPasses(r, tree, loaded)
    ELSE IF r.pc = "awaitDecode"
    THEN IF yamlLoad[r.input].t = "value"
         THEN CallPasses([r EXCEPT !.load = "none"], yamlLoad[r.input].v, loaded)
         ELSE [r EXCEPT !.pc = "done", !.result = Rejected("decode")]
    ELSE [r EXCEPT !.pc = "done", !.result = Resolved(YamlDump(tree))]

InitCalls ==
    /\ calls \in [1..NumConverts -> {CallRecord(a) : a \in CallArguments}]
    /\ val \in [YamlInputs -> YamlLoadOutcomes]
    /\ jsyaml = FALSE
    /\ scripts = << >>
    /\ pc = Unused /\ opts = Unused /\ inFmt = Unused /\ data = Unused
    /\ result = Unused /\ steps = Unused /\ text = Unused /\ dec = Unused
    /\ raw = Unused /\ inputStr = Unused

\* lazyLoad inside the segment: a call that wants the provider and did not find
\* it appends a script element of its own
Suspend(c, r) ==
    IF r.load = "wanted"
    THEN /\ scripts' = Append(scripts, "loading")
         /\ calls' = [calls EXCEPT ![c] = [r EXCEPT !.load = "pending",
                                                    !.script = Len(scripts) + 1]]
    ELSE /\ calls' = [calls EXCEPT ![c] = r]
         /\ UNCHANGED scripts

\* convert(inputStr, settingsStr) is called
ConvertCall(c) ==
    /\ calls[c].pc = "start"
    /\ Suspend(c, CallStart(calls[c], jsyaml))
    /\ UNCHANGED <<raw, inputStr, pc, opts, inFmt, data, result, steps, val, text,
                   dec, jsyaml>>

\* a resume that reads one tree shared by all calls: the first call's, once
\* that call has built it
ConvertResumeSharedTree(c) ==
    /\ calls[c].pc \in {"afterDecode", "awaitDecode", "awaitEncode"}
    /\ calls[c].load \in {"none", "ready", "failed"}
    /\ Suspend(c, CallContinue(calls[c],
                               IF calls[1].pc \in {"afterDecode", "awaitEncode"}
                               THEN calls[1].data ELSE calls[c].data,
                               jsyaml, val))
    /\ UNCHANGED <<raw, inputStr, pc, opts, inFmt, data, result, steps, val, text,
                   dec, jsyaml>>

\* the awaited value of call c has settled: the call goes on
ConvertResume(c) ==
    /\ calls[c].pc \in {"afterDecode", "awaitDecode", "awaitEncode"}
    /\ calls[c].load \in {"none", "ready", "failed"}
    /\ Suspend(c, CallContinue(calls[c], calls[c].data, jsyaml, val))
    /\ UNCHANGED <<raw, inputStr, pc, opts, inFmt, data, result, steps, val, text,
                   dec, jsyaml>>

\* what script k's event means to the call that appended it
Settled(k, how) ==
    [c \in DOMAIN calls |->
        IF calls[c].load = "pending" /\ calls[c].script = k
        THEN [calls[c] EXCEPT !.load = how] ELSE calls[c]]

\* s.onload = () => resolve(global[globalSym])
CallScriptOnload(k) ==
    /\ scripts[k] = "loading"
    /\ scripts' = [scripts EXCEPT ![k] = "loaded"]
    /\ jsyaml' = TRUE
    /\ calls' = Settled(k, "ready")
    /\ UNCHANGED <<raw, inputStr, pc, opts, inFmt, data, result, steps, val, text, dec>>

\* s.onerror = reject
CallScriptOnerror(k) ==
    /\ scripts[k] = "loading"
    /\ scripts' = [scripts EXCEPT ![k] = "failed"]
    /\ calls' = Settled(k, "failed")
    /\ UNCHANGED <<raw, inputStr, pc, opts, inFmt, data, result, steps, val, text,
                   dec, jsyaml>>

NextCalls ==
    \/ \E c \in DOMAIN calls : ConvertCall(c)
    \/ \E c \in DOMAIN calls : ConvertResume(c)
    \/ \E k \in DOMAIN scripts : CallScriptOnload(k)
    \/ \E k \in DOMAIN scripts : CallScriptOnerror(k)

SpecCalls == InitCalls /\ [][NextCalls]_vars

\* a call's await settles without a failure
Settle1(r) == IF r.load \in {"wanted", "pending"} THEN [r EXCEPT !.load = "ready"] ELSE r

\* what the call returns when it is the only call and the provider loads
LoneOutcome(a, yamlLoad) ==
    LET s1 == Settle1(CallStart(CallRecord(a), FALSE))
        s2 == IF s1.pc = "done" THEN s1 ELSE Settle1(CallContinue(s1, s1.data, TRUE, yamlLoad))
        s3 == IF s2.pc = "done" THEN s2 ELSE CallContinue(s2, s2.data, TRUE, yamlLoad)
    IN  s3.result

Finished(c) == calls[c].pc = "done"
LoadFailed(c) == calls[c].result.st = "rejected" /\ calls[c].result.why = "load"

MaxRequests == 5

Clients == {"c1", "c2"}

E_a == <<"a","@","x",".","i","o">>
E_b == <<"b","@","x",".","i","o">>
E_bad == <<"a","b">>
P_secret == <<"s","e","c","r","e","t">>
P_padded == <<"s","e","c","r","e","t"," ">>
P_other == <<"o","t","h","e","r","1","2">>
P_short == <<"s","h","o","r","t">>

Emails == {E_a, E_b, E_bad, << >>}
Passwords == {P_secret, P_padded, P_other, P_short}

\* what the request bodies put in input_format
Payloads == {S_json, S_yaml}

\* filter_var($email, FILTER_VALIDATE_EMAIL), for the addresses above: one
\* "@", something before it, and a dot after it
CountOf(s, c) == Cardinality({j \in DOMAIN s : s[j] = c})
ValidEmail(email) ==
    /\ CountOf(email, "@") = 1
    /\ email[1] # "@"
    /\ \E j, k \in DOMAIN email : email[j] = "@" /\ j + 1 < k /\ email[k] = "." /\ k < Len(email)

\* password_hash / password_verify: the hash is not the password, and a
\* password verifies against the hash made from that same password only
password_hash(password) == <<"$", "2", "y", "$">> \o password
password_verify(password, hash) == hash = password_hash(password)

\* SELECT ... FROM users WHERE email = ?
UsersWith(email) == {j \in DOMAIN data.users : data.users[j].email = email}

NoSession == [uid |-> 0]
isset_uid(c) == val[c].uid # 0

InitSession ==
    /\ val = [c \in Clients |-> NoSession]
    /\ data = [users |-> << >>, conversions |-> << >>]
    /\ dec = [c \in Clients |-> [by |-> "nothing", uid |-> 0]]
    /\ result = [endpoint |-> "none", client |-> "c1", code |-> 0, body |-> << >>,
                 before |-> << >>]
    /\ steps = 0
    /\ pc = Unused /\ opts = Unused /\ inFmt = Unused /\ raw = Unused
    /\ inputStr = Unused /\ text = Unused /\ jsyaml = Unused /\ scripts = Unused
    /\ calls = Unused

Respond(endpoint, c, code, body) ==
    /\ result' = [endpoint |-> endpoint, client |-> c, code |-> code, body |-> body,
                  before |-> data.conversions]
    /\ steps' = steps + 1
    /\ UNCHANGED <<raw, inputStr, pc, opts, inFmt, text, jsyaml, scripts, calls>>

\* register.php
Register(c, email, password) ==
    /\ steps < MaxRequests
    /\ LET e == trim(email)
           p == trim(password)
           id == Len(data.users) + 1
       IN  IF ~ValidEmail(e) \/ Len(p) < 6
           THEN Respond("register", c, 422, << >>) /\ UNCHANGED <<val, data, dec>>
           ELSE IF UsersWith(e) # {}
           THEN Respond("register", c, 409, << >>) /\ UNCHANGED <<val, data, dec>>
           ELSE /\ data' = [data EXCEPT !.users = Append(@,
                                [id |-> id, email |-> e, password_hash |-> password_hash(p)])]
                /\ val' = [val EXCEPT ![c] = [uid |-> id]]
                /\ dec' = [dec EXCEPT ![c] = [by |-> "register", uid |-> id]]
                /\ Respond("register", c, 200, << >>)

\* login.php
Login(c, email, password) ==
    /\ steps < MaxRequests
    /\ LET e == trim(email)
           p == trim(password)
           found == UsersWith(e)
       IN  IF found # {} /\ \E j \in found : password_verify(p, data.users[j].password_hash)
           THEN /\ val' = [val EXCEPT ![c] = [uid |-> data.users[CHOOSE j \in found : TRUE].id]]
                /\ dec' = [dec EXCEPT ![c] =
                              [by |-> "login", uid |-> data.users[CHOOSE j \in found : TRUE].id]]
                /\ Respond("login", c, 200, << >>)
                /\ UNCHANGED data
           ELSE Respond("login", c, 401, << >>) /\ UNCHANGED <<val, data, dec>>

\* a logout that answers and leaves the session as it was
LogoutKeepsSession(c) ==
    /\ steps < MaxRequests
    /\ dec' = [dec EXCEPT ![c] = [by |-> "logout", uid |-> 0]]
    /\ Respond("logout", c, 200, << >>)
    /\ UNCHANGED <<val, data>>

\* logout.php: session_destroy() removes the stored session; the next request
\* with the same cookie starts with an empty $_SESSION
Logout(c) ==
    /\ steps < MaxRequests
    /\ val' = [val EXCEPT ![c] = NoSession]
    /\ dec' = [dec EXCEPT ![c] = [by |-> "logout", uid |-> 0]]
    /\ Respond("logout", c, 200, << >>)
    /\ UNCHANGED data

\* save-conversion.php
SaveConversion(c, payload) ==
    /\ steps < MaxRequests
    /\ IF ~isset_uid(c)
       THEN Respond("save_conversion", c, 401, << >>) /\ UNCHANGED <<val, data, dec>>
       ELSE /\ data' = [data EXCEPT !.conversions = Append(@,
                            [id |-> Len(data.conversions) + 1, user_id |-> val[c].uid,
                             input_format |-> payload])]
            /\ Respond("save_conversion", c, 200, << >>)
            /\ UNCHANGED <<val, dec>>

\* SELECT ... FROM conversions WHERE user_id = ? ORDER BY id DESC
RowsOf(table, uid) ==
    LET own == SelectSeq(table, LAMBDA row : row.user_id = uid)
    IN  [j \in 1..Len(own) |-> own[Len(own) + 1 - j]]

\* a history that selects without WHERE user_id = ?
HistoryAllRows(c) ==
    /\ steps < MaxRequests
    /\ IF ~isset_uid(c)
       THEN Respond("history", c, 401, << >>)
       ELSE Respond("history", c, 200,
                    [j \in 1..Len(data.conversions) |->
                        data.conversions[Len(data.conversions) + 1 - j]])
    /\ UNCHANGED <<val, data, dec>>

\* history.php
History(c) ==
    /\ steps < MaxRequests
    /\ IF ~isset_uid(c)
       THEN Respond("history", c, 401, << >>)
       ELSE Respond("history", c, 200, RowsOf(data.conversions, val[c].uid))
    /\ UNCHANGED <<val, data, dec>>

NextSession ==
    \/ \E c \in Clients, email \in Emails, password \in Passwords : Register(c, email, password)
    \/ \E c \in Clients, email \in Emails, password \in Passwords : Login(c, email, password)
    \/ \E c \in Clients : Logout(c)
    \/ \E c \in Clients, payload \in Payloads : SaveConversion(c, payload)
    \/ \E c \in Clients : History(c)

SpecSession == InitSession /\ [][NextSession]_vars

\* the session of the request served last belongs to a user: its last
\* register, login or logout was a register or a login that succeeded
HoldsUid == dec[result.client].by \in {"register", "login"}

SavedBy(uid) == {j \in DOMAIN data.conversions : data.conversions[j].user_id = uid}

\* C21: history answers with exactly the conversions saved under the user id
\* of the requesting session, the most recently saved first, and with no
\* conversion saved by another user, whatever saves other users made between.
HistoryOwnRows ==
    result.endpoint = "history" /\ result.code = 200 =>
        LET uid == dec[result.client].uid
        IN  /\ \A j \in DOMAIN result.body : result.body[j].user_id = uid
            /\ {result.body[j].id : j \in DOMAIN result.body}
                   = {data.conversions[j].id : j \in SavedBy(uid)}
            /\ Len(result.body) = Cardinality(SavedBy(uid))
            /\ \A j, k \in DOMAIN result.body :
                   j < k => result.body[j].id > result.body[k].id

\* a history with a row in it has been returned while the table also holds a
\* row saved by another user
HistoryBesideOtherUser ==
    /\ result.endpoint = "history" /\ result.code = 200
    /\ Len(result.body) >= 1
    /\ \E j \in DOMAIN data.conversions :
           data.conversions[j].user_id # dec[result.client].uid

(***************************************************************************)
(* THE PROVIDER, ONCE LOADED                                               *)
(***************************************************************************)
\* C22: once global.jsyaml has been set by a script that loaded, it stays set,
\* and every call of yamlToJSON or jsonToYAML made from then on resolves with
\* it at once and appends no script element.
ProviderCached ==
    [][jsyaml =>
          /\ jsyaml'
          /\ Len(scripts') = Len(scripts)
          /\ \A c \in Callers :
                 calls[c].at = "start" /\ calls'[c].at # "start"
                     => calls'[c].at = "resolved" /\ calls'[c].script = 0]_vars

\* a call has resolved without a script of its own, after another call's
\* script had loaded the provider
ResolvedFromCache ==
    /\ jsyaml
    /\ \E c \in Callers : calls[c].at = "resolved" /\ calls[c].script = 0
    /\ Len(scripts) = 1

(***************************************************************************)
(* THE ATTACHMENT POINT                                                    *)
(* emmetToJSON is handed a chain that decodes on its own, followed by one  *)
(* more `>child` or `+sibling` that parseChain's loop has to attach.       *)
(***************************************************************************)
\* longest chain of `>` steps before the term to attach
MaxDepth == 3

\* k1>k2>...>kn over the keys a and b
RECURSIVE ChainsOfDepth(_)
ChainsOfDepth(n) ==
    IF n = 1 THEN {k : k \in SiblingKeys}
    ELSE {k \o <<">">> \o rest : k \in SiblingKeys, rest \in ChainsOfDepth(n - 1)}

AttachChains == UNION {ChainsOfDepth(n) : n \in 1..MaxDepth}

\* the chain so far: ending in a leaf text, or written as a group with or
\* without a leaf text, or a group of two siblings, bare or under a key
AttachHeads ==
    UNION {{c \o <<"{", "x", "}">>,
            <<"(">> \o c \o <<"{", "x", "}", ")">>,
            <<"(">> \o c \o <<")">>} : c \in AttachChains}
    \cup {<<"(", "a", "{", "1", "}", "+", "b", "{", "2", "}", ")">>,
          <<"(", "a", ">", "(", "a", "{", "1", "}", "+", "b", "{", "2", "}", ")", ")">>}

\* the term to attach
AttachTerms == {<<"c", "{", "2", "}">>, <<"(", "c", "{", "2", "}", ")">>, <<"a", "{", "2", "}">>}

AttachCases ==
    {[head |-> h, op |-> o, term |-> t] : h \in AttachHeads, o \in {">", "+"}, t \in AttachTerms}

InitAttach ==
    /\ pc = "decode"
    /\ val \in AttachCases
    /\ text = val.head \o <<val.op>> \o val.term
    /\ dec = Unused
    /\ raw = Unused /\ inputStr = Unused /\ opts = Unused /\ inFmt = Unused
    /\ data = Unused /\ result = Unused /\ steps = Unused
    /\ jsyaml = Unused /\ scripts = Unused /\ calls = Unused

NextAttach == EmmetToJsonCall

SpecAttach == InitAttach /\ [][NextAttach]_vars

\* the keys leading to the deepest single-key Mapping: descend into the sole
\* value while that value is itself a single-key Mapping
RECURSIVE SingleKeyPath(_)
SingleKeyPath(obj) ==
    IF Len(obj.v) = 1 /\ isObject(obj.v[1][2]) /\ Len(obj.v[1][2].v) = 1
    THEN <<obj.v[1][1]>> \o SingleKeyPath(obj.v[1][2])
    ELSE << >>

\* the sibling's keys merged into the Mapping at the attachment point
SiblingAtPoint(tree, siblingOb) ==
    PathPut(tree, SingleKeyPath(tree),
            MergeEntries(PathGet(tree, SingleKeyPath(tree)), siblingOb.v))

\* the child grafted under the sole key of the Mapping at the attachment point
ChildAtPoint(tree, childOb) ==
    LET point == PathGet(tree, SingleKeyPath(tree))
    IN  PathPut(tree, SingleKeyPath(tree),
                Put(point, point.v[1][1],
                    Put(point.v[1][2], childOb.v[1][1], childOb.v[1][2])))

\* the attachment point is a single-key Mapping whose sole value is a Mapping
CanTakeChild(tree) ==
    LET point == PathGet(tree, SingleKeyPath(tree))
    IN  Len(point.v) = 1 /\ isObject(point.v[1][2])

\* C23: a further `+sibling` is merged into, and a further `>child` grafted
\* under, the deepest single-key Mapping reached from the chain's root through
\* sole values that are themselves single-key Mappings, and nowhere else; an
\* empty Mapping or a scalar as sole value is not descended into.
AttachmentPoint ==
    pc = "done" =>
        LET tree == emmetToJSON(val.head).v
            termOb == emmetToJSON(val.term).v
        IN  /\ val.op = "+" =>
                   dec.st = "ok" /\ dec.v = SiblingAtPoint(tree, termOb)
            /\ (val.op = ">" /\ CanTakeChild(tree)) =>
                   dec.st = "ok" /\ dec.v = ChildAtPoint(tree, termOb)

\* what parseChain does attach to: it descends into the sole value whenever
\* that value is a Mapping, empty and many-keyed Mappings included
AttachmentPointAsCoded ==
    pc = "done" /\ val.op = "+" =>
        LET tree == emmetToJSON(val.head).v
            termOb == emmetToJSON(val.term).v
        IN  /\ dec.st = "ok"
            /\ dec.v = PathPut(tree, ParentPath(tree),
                               MergeEntries(PathGet(tree, ParentPath(tree)), termOb.v))

(***************************************************************************)
(* JSON -> EMMET, ENTRY BY ENTRY                                           *)
(* jsonToEmmet is handed a Mapping whose values are scalars, Mappings      *)
(* (empty or not) and Sequences of these.                                  *)
(***************************************************************************)
\* most entries of the Mapping handed to jsonToEmmet
MaxEntries == 2

RenderScalars == {Num(1), Str(<<"x">>)}
RenderMappings == {EmptyObj, Obj(<< <<<<"c">>, Num(1)>> >>),
                   Obj(<< <<<<"c">>, EmptyObj>> >>),
                   Obj(<< <<<<"c">>, Num(1)>>, <<<<"d">>, Str(<<"x">>)>> >>)}
RenderElements == RenderScalars \cup RenderMappings
RenderSequences ==
    {Arr(<<x>>) : x \in RenderElements}
    \cup {Arr(<<x, y>>) : x \in RenderScalars,
                          y \in {Num(1), EmptyObj, Obj(<< <<<<"c">>, Num(1)>> >>)}}
RenderValues == RenderScalars \cup RenderMappings \cup RenderSequences

RenderTrees ==
    {Obj(e) : e \in UNION {EntriesOver(SiblingKeys, RenderValues, n) : n \in 1..MaxEntries}}

InitRender ==
    /\ val \in RenderTrees
    /\ pc = "encode"
    /\ text = << >>
    /\ dec = Unused
    /\ raw = Unused /\ inputStr = Unused /\ opts = Unused /\ inFmt = Unused
    /\ data = Unused /\ result = Unused /\ steps = Unused
    /\ jsyaml = Unused /\ scripts = Unused /\ calls = Unused

NextRender == JsonToEmmetCall

SpecRender == InitRender /\ [][NextRender]_vars

\* one entry as a term: the bare key for an empty Mapping, key{scalar} for a
\* scalar, key>child for a Mapping with entries, and for a Sequence one such
\* term per element; sibling terms joined by "+"
RECURSIVE TermOf(_, _)
RECURSIVE TermsOf(_)
TermOf(k, v) ==
    IF isArray(v) THEN join([j \in DOMAIN v.v |-> TermOf(k, v.v[j])], <<"+">>)
    ELSE IF isObject(v)
    THEN IF v.v = << >> THEN k ELSE k \o <<">">> \o Grouped(TermsOf(v))
    ELSE k \o <<"{">> \o StringOf(v) \o <<"}">>
TermsOf(node) == join([j \in DOMAIN node.v |-> TermOf(node.v[j][1], node.v[j][2])], <<"+">>)

\* C24: jsonToEmmet writes an entry as the bare key when its value is an empty
\* Mapping, as key{scalar} when it is a scalar, as key>child when it is a
\* Mapping with entries, sibling entries joined by "+"; an entry holding a
\* Sequence is written as one term per element, by the same rules.
EntryRendering ==
    pc = "decode" => text = TermsOf(val)

\* an empty Mapping directly under a key, at any depth
RECURSIVE HoldsEmptyMapping(_)
HoldsEmptyMapping(node) ==
    \E j \in DOMAIN node.v :
        LET v == node.v[j][2]
        IN  \/ v = EmptyObj
            \/ isObject(v) /\ HoldsEmptyMapping(v)
            \/ isArray(v) /\ \E e \in DOMAIN v.v :
                   isObject(v.v[e]) /\ v.v[e] # EmptyObj /\ HoldsEmptyMapping(v.v[e])

\* the rules are followed by every Mapping that binds no key to an empty Mapping
EntryRenderingButEmpty ==
    pc = "decode" /\ ~HoldsEmptyMapping(val) => text = TermsOf(val)

(***************************************************************************)
(* XML -> JSON, TAG BY TAG                                                 *)
(* xmlToJSON is handed a document whose root holds up to MaxKids elements, *)
(* some of them under the same tag name.                                   *)
(***************************************************************************)
\* most child elements of the root
MaxKids == 3

KidTexts ==
    {<<"<","a",">","0","<","/","a",">">>,
     <<"<","a",">","x","<","/","a",">">>,
     <<"<","a","/",">">>,
     <<"<","b",">","1","<","/","b",">">>,
     <<"<","a",">","<","b",">","0","<","/","b",">","<","b",">","2","<","/","b",">","<","/","a",">">>,
     <<"<","c","o","n","s","t","r","u","c","t","o","r",">","1","<","/","c","o","n","s","t","r","u","c","t","o","r",">">>}

RECURSIVE KidRuns(_)
KidRuns(n) ==
    IF n = 0 THEN {<< >>} ELSE {k \o rest : k \in KidTexts, rest \in KidRuns(n - 1)}

DomTexts == {<<"<", "r", ">">> \o run \o <<"<", "/", "r", ">">> :
                run \in UNION {KidRuns(n) : n \in 0..MaxKids}}

InitDom ==
    /\ text \in DomTexts
    /\ pc = "decode"
    /\ val = Unused
    /\ dec = Unused
    /\ raw = Unused /\ inputStr = Unused /\ opts = Unused /\ inFmt = Unused
    /\ data = Unused /\ result = Unused /\ steps = Unused
    /\ jsyaml = Unused /\ scripts = Unused /\ calls = Unused

NextDom == XmlToJsonCall

SpecDom == InitDom /\ [][NextDom]_vars

\* the element children of a node, in document order
ElementKids(node) == SelectSeq(node.kids, LAMBDA kid : kid.kind = "el")
TagNames(node) == Unique([j \in DOMAIN ElementKids(node) |-> ElementKids(node)[j].name], << >>)

\* what an element decodes to: its text read as a number or a string, an empty
\* Mapping when it holds nothing, else each child tag once, in first-seen
\* order, bound to its one value or to the Sequence of all its values
RECURSIVE ValueOfElement(_)
ValueOfElement(node) ==
    IF node.kids = << >> THEN EmptyObj
    ELSE IF Len(node.kids) = 1 /\ node.kids[1].kind = "text"
    THEN coerce(trim(node.kids[1].value))
    ELSE Obj([j \in DOMAIN TagNames(node) |->
                LET same == SelectSeq(ElementKids(node),
                                      LAMBDA kid : kid.name = TagNames(node)[j])
                IN  <<TagNames(node)[j],
                      IF Len(same) >= 2
                      THEN Arr([e \in DOMAIN same |-> ValueOfElement(same[e])])
                      ELSE ValueOfElement(same[1])>>])

TheRoot == CHOOSE rootEl \in parseFromString(text) : TRUE

\* C25: xmlToJSON returns one entry keyed by the root's tag name; inside every
\* element each child tag name appears once, bound to the Sequence of all its
\* decoded values in document order when it occurs twice or more, whatever
\* those values are, and to its single decoded value when it occurs once.
TagsBoundOnce ==
    pc = "done" =>
        dec = Obj(<< <<TheRoot.name, ValueOfElement(TheRoot)>> >>)

\* no element of the document is named like a member of Object.prototype
RECURSIVE PlainNames(_)
PlainNames(node) ==
    node.kind = "el" =>
        /\ node.name \notin ObjectPrototypeFunctions
        /\ \A j \in DOMAIN node.kids : PlainNames(node.kids[j])

\* the rule holds for every document whose tag names are not names of members
\* of Object.prototype
TagsBoundOncePlainNames ==
    pc = "done" /\ PlainNames(TheRoot) =>
        dec = Obj(<< <<TheRoot.name, ValueOfElement(TheRoot)>> >>)

(***************************************************************************)
(* JSON -> CSV, ROW BY ROW                                                 *)
(* jsonToCSV is handed one record or a Sequence of up to MaxRows records,  *)
(* and csvToJSON the text it returns.                                      *)
(***************************************************************************)
\* most records in the Sequence handed to jsonToCSV
MaxRows == 2

RowLeaves == {Num(30), Str(<<"x">>)}
RowRecords == {Obj(e) : e \in UNION {EntriesOver(RecordKeys, RowLeaves, n) : n \in 1..2}}
RowInputs ==
    RowRecords \cup {Arr(rows) : rows \in UNION {[1..n -> RowRecords] : n \in 1..MaxRows}}

InitRows ==
    /\ val \in RowInputs
    /\ pc = "encode"
    /\ text = Unused
    /\ dec = Unused
    /\ raw = Unused /\ inputStr = Unused /\ opts = Unused /\ inFmt = Unused
    /\ data = Unused /\ result = Unused /\ steps = Unused
    /\ jsyaml = Unused /\ scripts = Unused /\ calls = Unused

NextRows == JsonToCsvCall \/ CsvToJsonCall

SpecRows == InitRows /\ [][NextRows]_vars

\* the records handed over, and the dot-joined keys of each once flattened
RowsOfInput == IF isArray(val) THEN val.v ELSE <<val>>
FlatOf(j) == flattenObject(RowsOfInput[j], << >>)
UnionOfKeys == Unique(Concat([j \in DOMAIN RowsOfInput |-> Keys(FlatOf(j))]), << >>)

\* header, one cell per column in every data row, and the bare Mapping
HeaderAndCells ==
    /\ pc \in {"decode", "done"} =>
           LET lines == splitLines(text.v)
               header == IF lines[1] = << >> THEN << >> ELSE split(lines[1], ",")
           IN  /\ text.ok
               /\ header = UnionOfKeys
               /\ Len(lines) = Len(RowsOfInput) + 1
               /\ \A j \in DOMAIN RowsOfInput :
                      LET cells == IF header = << >> /\ lines[j + 1] = << >> THEN << >>
                                   ELSE split(lines[j + 1], ",")
                      IN  /\ Len(cells) = Len(header)
                          /\ \A c \in DOMAIN header :
                                 cells[c] = IF HasKey(FlatOf(j), header[c])
                                            THEN StringOf(Get(FlatOf(j), header[c]))
                                            ELSE << >>
    /\ pc = "done" /\ Len(splitLines(trim(text.v))) = 2 => dec.ok /\ isObject(dec.v)

\* C26: jsonToCSV's header is the union, in first-seen order and without
\* repeats, of the dot-joined flattened keys of all rows; every data row has one
\* cell per header column, empty where the row lacks the column; csvToJSON of a
\* text with exactly one data row returns a bare Mapping.
CsvHeaderUnion == HeaderAndCells

\* the same holds whenever one record only is handed over
CsvHeaderUnionOneRow == Len(RowsOfInput) = 1 => HeaderAndCells

(***************************************************************************)
(* TERMINATION OF emmetToJSON AND THE RANGE OF ITS CURSOR                  *)
(***************************************************************************)
\* C27: emmetToJSON ends on every input, with a tree or with a grammar error,
\* and its cursor never leaves the input: 0 <= i <= length; this includes the
\* inputs that end in an identifier character and those that end right after
\* `>`, `+` or `(`.
DecodeTerminates ==
    pc = "done" =>
        /\ dec.st \in {"ok", "throw"}
        /\ 0 <= dec.i /\ dec.i <= Len(text)

\* the only other way out is parseIdent's loop running past the end of the
\* input; a decode that does not take it keeps the cursor inside the input
DecodeTerminatesOrRunsAway ==
    pc = "done" =>
        \/ dec.st = "runaway" /\ dec.i > Len(text)
        \/ dec.st \in {"ok", "throw"} /\ 0 <= dec.i /\ dec.i <= Len(text)

(***************************************************************************)
(* LEAF TEXT AT EVERY DEPTH                                                *)
(* emmetToJSON is handed one `{text}` leaf whose term starts the chain,    *)
(* follows a `+`, or is reached through one or two `>` steps or a group.   *)
(***************************************************************************)
\* longest leaf text
MaxLeafLen == 2

LeafChars == {"1", "0", "x", "-"}
LeafTexts == UNION {[1..n -> LeafChars] : n \in 1..MaxLeafLen}
LeafPlaces == {"start", "sibling", "child", "grandchild", "group", "groupchild"}
LeafCases == {[place |-> p, leaf |-> t, key |-> k] :
                 p \in LeafPlaces, t \in LeafTexts, k \in SiblingKeys}

\* the text of a case, and the keys that lead to its leaf in the decoded tree
LeafText(c) ==
    LET term == c.key \o <<"{">> \o c.leaf \o <<"}">>
    IN  CASE c.place = "start" -> term
          [] c.place = "sibling" -> <<"s", "{", "x", "}", "+">> \o term
          [] c.place = "child" -> <<"p", ">">> \o term
          [] c.place = "grandchild" -> <<"p", ">", "q", ">">> \o term
          [] c.place = "group" -> <<"(">> \o term \o <<")">>
          [] c.place = "groupchild" -> <<"p", ">", "(">> \o term \o <<")">>
LeafPath(c) ==
    CASE c.place \in {"start", "sibling", "group"} -> <<c.key>>
      [] c.place \in {"child", "groupchild"} -> <<<<"p">>, c.key>>
      [] c.place = "grandchild" -> <<<<"p">>, <<"q">>, c.key>>

InitLeaf ==
    /\ pc = "decode"
    /\ val \in LeafCases
    /\ text = LeafText(val)
    /\ dec = Unused
    /\ raw = Unused /\ inputStr = Unused /\ opts = Unused /\ inFmt = Unused
    /\ data = Unused /\ result = Unused /\ steps = Unused
    /\ jsyaml = Unused /\ scripts = Unused /\ calls = Unused

NextLeaf == EmmetToJsonCall

SpecLeaf == InitLeaf /\ [][NextLeaf]_vars

\* C28: a leaf text that is the canonical decimal form of a number decodes to
\* that number and any other text to a string, at every depth: whether the
\* leaf's term starts the chain, follows a `+`, or is reached through `>` steps.
LeafCoercedEverywhere ==
    pc = "done" =>
        dec.st = "ok" /\ PathGet(dec.v, LeafPath(val)) = coerce(val.leaf)

\* the rule is followed where buildObj is handed the leaf's own term
LeafCoercedAtTermOfItsOwn ==
    pc = "done" /\ val.place \in {"start", "sibling", "group", "groupchild"} =>
        dec.st = "ok" /\ PathGet(dec.v, LeafPath(val)) = coerce(val.leaf)

\* a leaf reached through `>` inside one term keeps its text as a string
LeafKeptAsTextBelow ==
    pc = "done" /\ val.place \in {"child", "grandchild"} =>
        dec.st = "ok" /\ PathGet(dec.v, LeafPath(val)) = Str(val.leaf)

(***************************************************************************)
(* REGISTER REQUESTS IN FLIGHT TOGETHER                                    *)
(* Each register request runs register.php in two steps: the check (the    *)
(* validation and the SELECT) and the INSERT with the session assignment.  *)
(* Requests of different sessions interleave between the two; PHP holds    *)
(* the session's lock from session_start() to the end of the script, so    *)
(* two requests of one session do not.  The users table has email UNIQUE.  *)
(*   calls   the requests: client, body, position and response code        *)
(*   data    the database;  val  $_SESSION of each client's session        *)
(***************************************************************************)
\* register requests in flight
NumRegisters == 3

RegisterRequests ==
    {[client |-> c, email |-> e, password |-> P_secret, at |-> "start", code |-> 0] :
        c \in Clients, e \in {E_a, E_b, E_bad}}

InitRegister ==
    /\ calls \in [1..NumRegisters -> RegisterRequests]
    /\ data = [users |-> << >>, conversions |-> << >>, nextId |-> 1]
    /\ val = [c \in Clients |-> NoSession]
    /\ pc = Unused /\ opts = Unused /\ inFmt = Unused /\ raw = Unused
    /\ inputStr = Unused /\ text = Unused /\ jsyaml = Unused /\ scripts = Unused
    /\ result = Unused /\ steps = Unused /\ dec = Unused

\* another request of the same session is between its two steps
SessionLocked(r) ==
    \E q \in DOMAIN calls : q # r /\ calls[q].client = calls[r].client /\ calls[q].at = "checked"

\* register.php up to the SELECT: 422 for a bad body, 409 when the email has a row
RegisterCheck(r) ==
    /\ calls[r].at = "start"
    /\ ~SessionLocked(r)
    /\ LET e == trim(calls[r].email)
           p == trim(calls[r].password)
       IN  calls' = [calls EXCEPT ![r] =
                IF ~ValidEmail(e) \/ Len(p) < 6 THEN [@ EXCEPT !.at = "done", !.code = 422]
                ELSE IF UsersWith(e) # {} THEN [@ EXCEPT !.at = "done", !.code = 409]
                ELSE [@ EXCEPT !.at = "checked"]]
    /\ UNCHANGED <<raw, inputStr, pc, opts, inFmt, data, result, steps, val, text,
                   dec, jsyaml, scripts>>

\* an INSERT into a users table without the UNIQUE key on email
RegisterInsertNoUniqueKey(r) ==
    /\ calls[r].at = "checked"
    /\ data' = [data EXCEPT
                   !.users = Append(@, [id |-> data.nextId, email |-> trim(calls[r].email),
                                        password_hash |-> password_hash(trim(calls[r].password))]),
                   !.nextId = @ + 1]
    /\ val' = [val EXCEPT ![calls[r].client] = [uid |-> data.nextId]]
    /\ calls' = [calls EXCEPT ![r].at = "done", ![r].code = 200]
    /\ UNCHANGED <<raw, inputStr, pc, opts, inFmt, result, steps, text, dec, jsyaml,
                   scripts>>

\* the INSERT and what follows it.  When a row with the email has appeared
\* since the check, the UNIQUE key refuses the row: PDO throws, the script
\* ends there with a 500 and $_SESSION is not assigned.  The refused INSERT
\* still uses up an AUTO_INCREMENT value.
RegisterInsert(r) ==
    /\ calls[r].at = "checked"
    /\ IF UsersWith(trim(calls[r].email)) # {}
       THEN /\ data' = [data EXCEPT !.nextId = @ + 1]
            /\ calls' = [calls EXCEPT ![r].at = "done", ![r].code = 500]
            /\ UNCHANGED val
       ELSE /\ data' = [data EXCEPT
                   !.users = Append(@, [id |-> data.nextId, email |-> trim(calls[r].email),
                                        password_hash |-> password_hash(trim(calls[r].password))]),
                   !.nextId = @ + 1]
            /\ val' = [val EXCEPT ![calls[r].client] = [uid |-> data.nextId]]
            /\ calls' = [calls EXCEPT ![r].at = "done", ![r].code = 200]
    /\ UNCHANGED <<raw, inputStr, pc, opts, inFmt, result, steps, text, dec, jsyaml,
                   scripts>>

NextRegister ==
    \/ \E r \in DOMAIN calls : RegisterCheck(r)
    \/ \E r \in DOMAIN calls : RegisterInsert(r)

SpecRegister == InitRegister /\ [][NextRegister]_vars

\* no two rows of users have the same email
EmailsDistinct ==
    \A j, k \in DOMAIN data.users : j # k => data.users[j].email # data.users[k].email

\* a step of a request whose email already has a row adds no user and assigns
\* no session
NoSecondUser ==
    \A r \in DOMAIN calls :
        (/\ calls'[r] # calls[r]
         /\ \E j \in DOMAIN data.users : data.users[j].email = trim(calls[r].email))
            => data'.users = data.users /\ val' = val

\* C29: however register requests interleave, the users table never holds two
\* rows with the same email, and a register request for an email that already
\* has a row creates no user and does not set the session uid.
RegisterKeepsEmailsUnique == []EmailsDistinct /\ [][NoSecondUser]_vars

\* two requests for the same email both passed the check; one was given the
\* row and the other was refused by the UNIQUE key
LostTheRace ==
    \E r, q \in DOMAIN calls :
        /\ calls[r].email = calls[q].email
        /\ calls[r].code = 200 /\ calls[q].code = 500
        /\ val[calls[q].client] = NoSession

(***************************************************************************)
(* THE TRANSFORM BUTTON                                                    *)
(*                                                                         *)
(* The click handler of script.js: it reads the input and the settings     *)
(* text, disables the button, awaits convert, enables the button in its    *)
(* finally block, and then decides about save_conversion.php.  raw is the  *)
(* settings text, inputStr the input field, result what convert settled    *)
(* with, val the button, calls the requests sent, steps how the save       *)
(* request ended.                                                          *)
(***************************************************************************)
S_SaveToHistory == <<"S","a","v","e","T","o","H","i","s","t","o","r","y">>
S_maybe == <<"m","a","y","b","e">>
S_saveDirective == S_savetohistory \o <<"=">> \o S_true

\* what the manual settings field holds when the button is clicked
TransformSettings ==
    {trim(lead \o key \o <<"=">> \o value \o tail) :
        lead \in {<< >>, <<"#", " ">>},
        key \in {S_savetohistory, S_SaveToHistory},
        value \in {S_true, S_false, S_yes, S_maybe},
        tail \in {<< >>, <<"\n">> \o S_savetohistory \o <<"=">> \o S_false}}

\* what the input field holds: a JSON text, and a text no format is detected in
TransformInputs == {<<"{","\"","a","\"",":","1","}">>, <<" ">>}

\* String.prototype.includes with a text argument
includesText(s, sub) ==
    \E i \in 1..(Len(s) - Len(sub) + 1) : SubSeq(s, i, i + Len(sub) - 1) = sub

\* the promise of DataTransformer.convert(input, settingsString): with the
\* texts above convert returns or throws before its first await
TransformOutcome(input, settingsString) ==
    CallStart(CallRecord(<<input, settingsString>>), FALSE).result

SaveRequest(input, settingsString, output) ==
    [url |-> "save_conversion.php", settings |-> settingsString,
     input |-> input, output |-> output]

InitTransform ==
    /\ raw \in TransformSettings
    /\ inputStr \in TransformInputs
    /\ pc = "idle"
    /\ result = Pending
    /\ val = [disabled |-> FALSE]
    /\ calls = << >>
    /\ steps = "none"
    /\ opts = Unused /\ inFmt = Unused /\ data = Unused /\ text = Unused
    /\ dec = Unused /\ jsyaml = FALSE /\ scripts = << >>

\* the click, up to the await of convert
TransformClick ==
    /\ pc = "idle"
    /\ ~val.disabled
    /\ pc' = "converting"
    /\ val' = [disabled |-> TRUE]
    /\ UNCHANGED <<raw, inputStr, opts, inFmt, data, result, steps, text, dec,
                   jsyaml, scripts, calls>>

\* convert has settled: try or catch, finally, and the test on the settings
\* text.  After a rejection meta is undefined, so that reading meta.inFmt for
\* the body throws before api is called.
TransformResume ==
    /\ pc = "converting"
    /\ result' = TransformOutcome(inputStr, raw)
    /\ val' = [disabled |-> FALSE]
    /\ IF includesText(raw, S_saveDirective)
       THEN IF result'.st = "resolved"
            THEN /\ calls' = Append(calls, SaveRequest(inputStr, raw, result'.v))
                 /\ pc' = "saving"
            ELSE /\ pc' = "threw"
                 /\ UNCHANGED calls
       ELSE /\ pc' = "done"
            /\ UNCHANGED calls
    /\ UNCHANGED <<raw, inputStr, opts, inFmt, data, steps, text, dec, jsyaml,
                   scripts>>

\* the save request has settled: then shows the success toast and renders the
\* history, catch shows the error toast
TransformSaveSettles ==
    /\ pc = "saving"
    /\ \E how \in {"saved", "failed"} : steps' = how
    /\ pc' = "done"
    /\ UNCHANGED <<raw, inputStr, opts, inFmt, data, result, val, text, dec,
                   jsyaml, scripts, calls>>

NextTransform ==
    \/ TransformClick
    \/ TransformResume
    \/ TransformSaveSettles

SpecTransform == InitTransform /\ [][NextTransform]_vars

ConversionOver == pc \in {"saving", "threw", "done"}
SaveSent == calls # << >>
ParsedFlag == parseSettings(raw).st = "ok" /\ parseSettings(raw).savetohistory

\* C30: once the conversion attempt is over, a save_conversion request has been
\* sent exactly when the conversion succeeded and the settings parsed from the
\* same text have savetohistory true, and the transform button is enabled again
SaveExactlyWhenParsedFlag ==
    ConversionOver =>
        /\ SaveSent <=> (result.st = "resolved" /\ ParsedFlag)
        /\ ~val.disabled

\* what the handler does instead: the request follows the words
\* savetohistory=true anywhere in the settings text
SaveFollowsSettingsText ==
    ConversionOver =>
        /\ SaveSent <=> (result.st = "resolved" /\ includesText(raw, S_saveDirective))
        /\ ~val.disabled

\* a failed conversion sends nothing, and the button is disabled only while the
\* conversion is awaited
FailedConversionSendsNothing ==
    /\ (ConversionOver /\ result.st = "rejected") => ~SaveSent
    /\ val.disabled <=> pc = "converting"

\* a commented-out directive after a conversion that succeeded
SavedOnCommentedDirective ==
    /\ SaveSent /\ result.st = "resolved"
    /\ ~ParsedFlag
    /\ Head(raw) = "#"

\* a directive the parser reads as true, and no request
ParsedTrueNotSaved ==
    /\ pc = "done" /\ result.st = "resolved"
    /\ ParsedFlag /\ ~SaveSent

=============================================================================
